---- MODULE Spec2Model ----
(***************************************************************************)
(* Heuristic question collation of pandoras-box: the association engine    *)
(* refine_grouping_with_similarity (component_4_refined_grouping.py) with  *)
(* the option extractor and the regular expressions it uses.               *)
(*                                                                         *)
(* Text is a sequence of characters; a character is a one-character string *)
(* (the bullet U+2022 is written "bullet").  Timestamps are minutes.       *)
(***************************************************************************)
EXTENDS Integers, Sequences, FiniteSets, TLC

(***************************************************************************)
(* Characters and the str methods used by the source                       *)
(***************************************************************************)
UpperChars == <<"A","B","C","D","E","F","G","H","I","J","K","L","M",
                "N","O","P","Q","R","S","T","U","V","W","X","Y","Z">>
LowerChars == <<"a","b","c","d","e","f","g","h","i","j","k","l","m",
                "n","o","p","q","r","s","t","u","v","w","x","y","z">>
DigitChars == {"0","1","2","3","4","5","6","7","8","9"}

Range(s) == {s[k] : k \in DOMAIN s}

\* \s of the re module, for the characters of the model
IsSpace(c) == c \in {" ", "\t", "\n"}

\* \w of the re module, for the characters of the model
IsWord(c) == c \in Range(UpperChars) \cup Range(LowerChars) \cup DigitChars \cup {"_"}

\* str.lower() on one character
LowerChar(c) ==
    IF c \in Range(UpperChars)
    THEN LowerChars[CHOOSE k \in DOMAIN UpperChars : UpperChars[k] = c]
    ELSE c

\* str.lower()
Lower(s) == [k \in DOMAIN s |-> LowerChar(s[k])]

\* str.strip()
Strip(s) ==
    LET keep == {k \in DOMAIN s : ~IsSpace(s[k])}
    IN  IF keep = {} THEN <<>>
        ELSE SubSeq(s, CHOOSE a \in keep : \A b \in keep : a <= b,
                       CHOOSE a \in keep : \A b \in keep : b <= a)

\* str.splitlines(): lines end at "\n"; no empty last line after a final "\n"
RECURSIVE SplitLines(_)
SplitLines(s) ==
    IF s = <<>> THEN <<>>
    ELSE LET nls == {k \in DOMAIN s : s[k] = "\n"}
         IN  IF nls = {} THEN <<s>>
             ELSE LET n == CHOOSE a \in nls : \A b \in nls : a <= b
                  IN  <<SubSeq(s, 1, n - 1)>> \o SplitLines(SubSeq(s, n + 1, Len(s)))

\* sep.join(parts)
RECURSIVE Join(_, _)
Join(parts, sep) ==
    IF parts = <<>> THEN <<>>
    ELSE IF Len(parts) = 1 THEN parts[1]
    ELSE parts[1] \o sep \o Join(Tail(parts), sep)

\* the truth value Python gives a string or a list
Truthy(s) == s /= <<>>

\* position of the first character at or after k that is not whitespace
\* (Len(s) + 1 when there is none): what a greedy \s* consumes
RECURSIVE SkipSpace(_, _)
SkipSpace(s, k) ==
    IF k <= Len(s) /\ IsSpace(s[k]) THEN SkipSpace(s, k + 1) ELSE k

\* s continues at position k with the characters of w, compared as re.IGNORECASE does
StartsWithAt(s, k, w) ==
    /\ k + Len(w) - 1 <= Len(s)
    /\ \A j \in DOMAIN w : LowerChar(s[k + j - 1]) = LowerChar(w[j])

(***************************************************************************)
(* The three regular expressions of component_4_refined_grouping.py        *)
(***************************************************************************)
MarkerLetters == {"a","b","c","d"}
MarkerDigits  == {"1","2","3","4"}
MarkerPunct   == {".", ")", ":"}
BulletChars   == {"-", "bullet", "*"}

\* option_marker_regex.match(s): the length of the match, 0 when there is none
\*   ^\s*([a-d][\.\):]|[1-4][\.\):]|[-bullet*])\s+   with re.IGNORECASE
option_marker_regex(s) ==
    LET p == SkipSpace(s, 1)
        q == IF p <= Len(s) /\ s[p] \in BulletChars THEN p + 1
             ELSE IF /\ p + 1 <= Len(s)
                     /\ LowerChar(s[p]) \in MarkerLetters \cup MarkerDigits
                     /\ s[p + 1] \in MarkerPunct
                  THEN p + 2
                  ELSE 0
    IN  IF q = 0 \/ q > Len(s) \/ ~IsSpace(s[q]) THEN 0
        ELSE SkipSpace(s, q) - 1

\* option_marker_regex.sub('', s): the one match at the start is removed
option_marker_sub(s) == SubSeq(s, option_marker_regex(s) + 1, Len(s))

\* only_marker_regex.match(s)
\*   ^\s*([a-d][\.\):]?|[1-4][\.\):]?|[-bullet*])\s*$   with re.IGNORECASE
only_marker_regex(s) ==
    LET p == SkipSpace(s, 1)
        blankFrom(k) == SkipSpace(s, k) = Len(s) + 1
    IN  /\ p <= Len(s)
        /\ \/ s[p] \in BulletChars /\ blankFrom(p + 1)
           \/ /\ LowerChar(s[p]) \in MarkerLetters \cup MarkerDigits
              /\ \/ blankFrom(p + 1)
                 \/ p + 1 <= Len(s) /\ s[p + 1] \in MarkerPunct /\ blankFrom(p + 2)

OptionKeywords ==
    { <<"o","p","t","i","o","n","s"," ","w","e","r","e">>,
      <<"o","p","t","i","o","n","s">>,
      <<"o","p","t","i","o","n">>,
      <<"o","p","t","n","s">>,
      <<"o","p","t","n">> }

\* explicit_option_keywords.match(s): the end of the match, 0 when there is none
\*   ^\s*(options were|options?|optns?)\b.*[:\-]?\s*   with re.IGNORECASE
\* after the keyword and the word boundary, .* runs to the end of the line
explicit_option_keywords(s) ==
    LET p == SkipSpace(s, 1)
        boundaryAfter(k) == k > Len(s) \/ ~IsWord(s[k])
        nls == {k \in DOMAIN s : k >= p /\ s[k] = "\n"}
        eol == IF nls = {} THEN Len(s)
               ELSE (CHOOSE a \in nls : \A b \in nls : a <= b) - 1
    IN  IF \E w \in OptionKeywords :
               StartsWithAt(s, p, w) /\ boundaryAfter(p + Len(w))
        THEN SkipSpace(s, eol + 1) - 1
        ELSE 0

\* explicit_option_keywords.sub('', s)
explicit_option_keywords_sub(s) == SubSeq(s, explicit_option_keywords(s) + 1, Len(s))

(***************************************************************************)
(* extract_options_from_text                                               *)
(***************************************************************************)
MAX_LINES_FOR_HEURISTIC_OPTION_BLOCK == 6
MAX_LENGTH_FOR_HEURISTIC_OPTION_BLOCK == 200

\* one iteration of "for line in lines" on the loop state st = [options, in_option_section]
ExtractLine(st, line) ==
    LET line_stripped == Strip(line)
        options == st.options
        last == options[Len(options)]
    IN  IF ~Truthy(line_stripped) \/ only_marker_regex(line_stripped) THEN st
        ELSE IF explicit_option_keywords(line_stripped) > 0
        THEN LET option_text_on_keyword_line ==
                     Strip(explicit_option_keywords_sub(line_stripped))
             IN  [options |-> IF Truthy(option_text_on_keyword_line)
                              THEN Append(options, option_text_on_keyword_line)
                              ELSE options,
                  in_option_section |-> TRUE]
        ELSE IF st.in_option_section \/ option_marker_regex(line_stripped) > 0
        THEN [st EXCEPT !.options = Append(options, line_stripped)]
        ELSE IF /\ Truthy(options)
                /\ (option_marker_regex(last) > 0 \/ Len(last) < 80)
                /\ Len(line_stripped) < 80
        THEN [st EXCEPT !.options = Append(options, line_stripped)]
        ELSE IF /\ st.in_option_section
                /\ Len(line_stripped) > 100
                /\ option_marker_regex(line_stripped) = 0
        THEN [st EXCEPT !.in_option_section = FALSE]
        ELSE st

RECURSIVE ExtractLoop(_, _)
ExtractLoop(st, lines) ==
    IF lines = <<>> THEN st
    ELSE ExtractLoop(ExtractLine(st, Head(lines)), Tail(lines))

\* [ln.strip() for ln in lines if ln.strip()]
RECURSIVE NonEmptyStripped(_)
NonEmptyStripped(lines) ==
    IF lines = <<>> THEN <<>>
    ELSE (IF Truthy(Strip(Head(lines))) THEN <<Strip(Head(lines))>> ELSE <<>>)
         \o NonEmptyStripped(Tail(lines))

extract_options_from_text(text) ==
    LET lines == SplitLines(text)
        options == ExtractLoop([options |-> <<>>, in_option_section |-> FALSE], lines).options
        non_empty_lines == NonEmptyStripped(lines)
        short_line_count ==
            Cardinality({k \in DOMAIN non_empty_lines : Len(non_empty_lines[k]) < 80})
    IN  IF /\ ~Truthy(options)
           /\ Len(lines) <= MAX_LINES_FOR_HEURISTIC_OPTION_BLOCK
           /\ Len(text) < MAX_LENGTH_FOR_HEURISTIC_OPTION_BLOCK
           /\ Len(non_empty_lines) > 0
           /\ 10 * short_line_count >= 6 * Len(non_empty_lines)
        THEN non_empty_lines
        ELSE options

(***************************************************************************)
(* Pass 1 of refine_grouping_with_similarity: the lines of one stem message*)
(***************************************************************************)
\* StemLine that goes back to stem mode on a line of 80 characters or more
\* without marker
StemLineReverting(st, line) ==
    LET line_stripped == Strip(line)
        is_option_marker == option_marker_regex(line_stripped) > 0
        stem_lines == st.stem_lines
    IN  IF ~Truthy(line_stripped) \/ only_marker_regex(line_stripped) THEN st
        ELSE IF is_option_marker
        THEN [st EXCEPT !.current_section = "option",
                        !.internal_options = Append(@, line_stripped)]
        ELSE IF /\ st.current_section = "stem"
                /\ Len(stem_lines) > 0
                /\ Len(line_stripped) < 80
        THEN IF Len(stem_lines[Len(stem_lines)]) > 50
             THEN [st EXCEPT !.current_section = "option",
                             !.internal_options = Append(@, line_stripped)]
             ELSE [st EXCEPT !.stem_lines = Append(@, line_stripped)]
        ELSE IF st.current_section = "option" /\ Len(line_stripped) < 80
        THEN [st EXCEPT !.internal_options = Append(@, line_stripped)]
        ELSE [st EXCEPT !.current_section = "stem",
                        !.stem_lines = Append(@, line_stripped)]

\* one iteration of "for line in lines" on st = [stem_lines, internal_options, current_section]
StemLine(st, line) ==
    LET line_stripped == Strip(line)
        is_option_marker == option_marker_regex(line_stripped) > 0
        stem_lines == st.stem_lines
    IN  IF ~Truthy(line_stripped) \/ only_marker_regex(line_stripped) THEN st
        ELSE IF is_option_marker
        THEN [st EXCEPT !.current_section = "option",
                        !.internal_options = Append(@, line_stripped)]
        ELSE IF /\ st.current_section = "stem"
                /\ Len(stem_lines) > 0
                /\ Len(line_stripped) < 80
        THEN IF Len(stem_lines[Len(stem_lines)]) > 50
             THEN [st EXCEPT !.current_section = "option",
                             !.internal_options = Append(@, line_stripped)]
             ELSE [st EXCEPT !.stem_lines = Append(@, line_stripped)]
        ELSE IF st.current_section = "option"
        THEN [st EXCEPT !.internal_options = Append(@, line_stripped)]
        ELSE [st EXCEPT !.stem_lines = Append(@, line_stripped)]

RECURSIVE StemLoop(_, _)
StemLoop(st, lines) ==
    IF lines = <<>> THEN st
    ELSE StemLoop(StemLine(st, Head(lines)), Tail(lines))

\* the scan of one stem message: [stem_text_only, internal_options]
ScanStem(original_text) ==
    LET st == StemLoop([stem_lines |-> <<>>, internal_options |-> <<>>,
                        current_section |-> "stem"], SplitLines(original_text))
        stem_text_only == Strip(Join(st.stem_lines, <<"\n">>))
    IN  [stem_text_only |-> IF Truthy(stem_text_only) THEN stem_text_only
                            ELSE Strip(original_text),
         internal_options |-> st.internal_options]

(***************************************************************************)
(* Pass 3 of refine_grouping_with_similarity: cleaning and de-duplication  *)
(***************************************************************************)
\* all_option_texts: the option_texts of the blocks, concatenated
RECURSIVE AllOptionTexts(_)
AllOptionTexts(blocks) ==
    IF blocks = <<>> THEN <<>>
    ELSE Head(blocks).option_texts \o AllOptionTexts(Tail(blocks))

\* cleaned_options
RECURSIVE CleanOptions(_)
CleanOptions(opts) ==
    IF opts = <<>> THEN <<>>
    ELSE LET cleaned == Strip(option_marker_sub(Head(opts)))
         IN  (IF Truthy(cleaned) THEN <<cleaned>> ELSE <<>>) \o CleanOptions(Tail(opts))

\* UniqueOptions that compares the options as they are
RECURSIVE UniqueOptionsExact(_, _)
UniqueOptionsExact(opts, seen_options) ==
    IF opts = <<>> THEN <<>>
    ELSE IF Head(opts) \notin seen_options
         THEN <<Head(opts)>> \o UniqueOptionsExact(Tail(opts), seen_options \cup {Head(opts)})
         ELSE UniqueOptionsExact(Tail(opts), seen_options)

\* unique_options, with seen_options the lower-cased options met so far
RECURSIVE UniqueOptions(_, _)
UniqueOptions(opts, seen_options) ==
    IF opts = <<>> THEN <<>>
    ELSE LET opt_lower == Lower(Head(opts))
         IN  IF opt_lower \notin seen_options
             THEN <<Head(opts)>> \o UniqueOptions(Tail(opts), seen_options \cup {opt_lower})
             ELSE UniqueOptions(Tail(opts), seen_options)

(***************************************************************************)
(* refine_grouping_with_similarity as a state machine                      *)
(***************************************************************************)
MESSAGE_SEARCH_WINDOW == 15
TIME_SEARCH_WINDOW_MINUTES == 20
SIMILARITY_THRESHOLD == 65

\* "timestamp": None of a message, and best_match_stem_id = None
NoTimestamp == -1
NoStem == 0
NoScore == -1

\* --- inputs ---
MaxMsgs == 3

\* messages that are no filler: at most MaxMsgs of them in one transcript
TextS1  == <<"Q","1","?">>
TextS1l == <<"q","1","?">>
TextSI  == <<"Q",")"," ","Z","\n","A","."," ","R","o","m","e","\n","b","."," ","r","o","m","e">>
TextO1  == <<"A","."," ","R","o","m","e","\n","B","."," ","O","s","l","o">>
TextO2  == <<"-"," ","O","S","L","O","\n","*"," ","B","e","r","n">>
\* seven short lines without marker: no stem, and no option is extracted from it
TextFiller == <<"x","\n","x","\n","x","\n","x","\n","x","\n","x","\n","x">>

Msg(text, ts, stem) ==
    [original_text |-> text, timestamp |-> ts, is_potential_stem |-> stem]

Content ==
    { Msg(TextS1,  NoTimestamp, TRUE),
      Msg(TextS1l, 0, TRUE),
      Msg(TextSI,  0, TRUE),
      Msg(TextO1,  NoTimestamp, FALSE),
      Msg(TextO1,  TIME_SEARCH_WINDOW_MINUTES, FALSE),
      Msg(TextO1,  TIME_SEARCH_WINDOW_MINUTES + 1, FALSE),
      Msg(TextO2,  TIME_SEARCH_WINDOW_MINUTES, FALSE) }

Filler == Msg(TextFiller, NoTimestamp, FALSE)

\* the lengths of the run of filler messages before the last message
GapSizes == {0, 1, MESSAGE_SEARCH_WINDOW, MESSAGE_SEARCH_WINDOW + 1}

\* the values fuzz.token_set_ratio (thefuzz, 0..100) takes in the model
ScoreValues == {0, SIMILARITY_THRESHOLD - 1, SIMILARITY_THRESHOLD, 70}

BoundedSeq(S, n) == UNION {[1..k -> S] : k \in 0..n}

\* content with gap filler messages before its last message
WithGap(content, gap) ==
    IF Len(content) < 2 THEN content
    ELSE SubSeq(content, 1, Len(content) - 1)
         \o [k \in 1..gap |-> Filler]
         \o <<content[Len(content)]>>

\* the ids preprocess_transcript gives: the position in the list, from 1
Numbered(ms) ==
    [k \in DOMAIN ms |->
        [id |-> k, timestamp |-> ms[k].timestamp, original_text |-> ms[k].original_text,
         is_potential_stem |-> ms[k].is_potential_stem]]

\* the texts of the model's messages, and what the two scans make of each of them
Texts == {m.original_text : m \in Content \cup {Filler}}
ExtractedOptions == [t \in Texts |-> extract_options_from_text(t)]
ScannedStem == [t \in Texts |-> ScanStem(t)]

\* extract_options_from_text(text) and the scan of pass 1, from the tables for the
\* texts they hold
OptionsIn(text) ==
    IF text \in Texts THEN ExtractedOptions[text] ELSE extract_options_from_text(text)

ScanOf(text) == IF text \in Texts THEN ScannedStem[text] ELSE ScanStem(text)

VARIABLES messages, pc, i, potential_questions, associated_option_message_ids,
          local, final_collated_questions, processed_stem_ids

\* the state of the other stages: the argument of preprocess_transcript and its
\* locals, and the Python type of the argument handed to a stage
VARIABLES transcript_text, current_message, message_id_counter, arg_type

\* the state of the web application: the global collection and the documents the
\* database holds in it, the argument and the result of save_questions_to_db and
\* the number of its calls, and the request, the locals and the response of
\* upload_transcript
VARIABLES collection, documents, questions_list, result, calls,
          request, start_dt, end_dt, filtering_active, filtered_lines, response

web == <<collection, documents, questions_list, result, calls,
         request, start_dt, end_dt, filtering_active, filtered_lines, response>>

\* the state of the functions that are checked on their own: the argument text and
\* the locals of extract_options_from_text, the locals of the scan of one stem message
\* in pass 1, the number of lines either loop has taken, the argument and the
\* locals of create_transcript_chunks, and whether the key of the language model
\* is configured, with the locals of collate_questions_from_transcript and the
\* responses of the language model
VARIABLES text_block, option_lines, in_option_section,
          stem_lines, internal_options, current_section, lines_done,
          target_size, chunks, current_chunk_lines, current_char_count, start_index,
          GEMINI_API_KEY, transcript_chunks, responses, all_collated_questions,
          processed_chunk_count, final_questions

units == <<text_block, option_lines, in_option_section,
           stem_lines, internal_options, current_section, lines_done,
           target_size, chunks, current_chunk_lines, current_char_count, start_index,
           GEMINI_API_KEY, transcript_chunks, responses, all_collated_questions,
           processed_chunk_count, final_questions>>

outer == <<transcript_text, current_message, message_id_counter, arg_type, web, units>>

vars == <<messages, pc, i, potential_questions, associated_option_message_ids,
          local, final_collated_questions, processed_stem_ids, outer>>

\* current_message = None
NoMessage == [id |-> 0]

\* the other stages at rest, and a list as the argument of this one
\* save_questions_to_db has not returned, upload_transcript has not responded
NoResult == [success |-> FALSE, message |-> "", count |-> 0]
NoResponse == [status |-> 0, success |-> FALSE, message |-> "", questions_saved |-> 0]

\* no request
NoRequest == [form |-> [startDate |-> <<>>, endDate |-> <<>>],
              files |-> {}, filename |-> "", lines |-> <<>>]

\* the web application at rest, without a database
WebIdle ==
    /\ collection = "None"
    /\ documents = <<>>
    /\ questions_list = <<>>
    /\ result = NoResult
    /\ calls = 0
    /\ request = NoRequest
    /\ start_dt = [day |-> 0, second |-> 0]
    /\ end_dt = [day |-> 0, second |-> 0]
    /\ filtering_active = FALSE
    /\ filtered_lines = <<>>
    /\ response = NoResponse

\* none of these functions has been called
UnitsIdle ==
    /\ text_block = <<>> /\ option_lines = <<>> /\ in_option_section = FALSE
    /\ stem_lines = <<>> /\ internal_options = <<>> /\ current_section = "stem"
    /\ lines_done = 0
    /\ target_size = 0 /\ chunks = <<>> /\ current_chunk_lines = <<>>
    /\ current_char_count = 0 /\ start_index = 0
    /\ GEMINI_API_KEY = FALSE /\ transcript_chunks = <<>> /\ responses = <<>> /\ all_collated_questions = <<>>
    /\ processed_chunk_count = 0 /\ final_questions = <<>>

OuterIdle ==
    /\ transcript_text = <<>>
    /\ current_message = NoMessage
    /\ message_id_counter = 0
    /\ arg_type = "list"
    /\ WebIdle
    /\ UnitsIdle

\* "not messages or not isinstance(messages, list)"
InvalidList == ~Truthy(messages) \/ arg_type /= "list"

\* the locals of an iteration of pass 2 that has not run
NoLocal ==
    [msg_id |-> 0, options_in_msg |-> <<>>, associated |-> FALSE, searched |-> FALSE,
     candidate_stem_ids |-> <<>>, score |-> <<>>,
     best_match_stem_id |-> NoStem, highest_score |-> 0]

Init ==
    /\ \E content \in BoundedSeq(Content, MaxMsgs), gap \in GapSizes :
           messages = Numbered(WithGap(content, gap))
    /\ pc = "pass1"
    /\ i = 1
    /\ potential_questions = <<>>
    /\ associated_option_message_ids = {}
    /\ local = NoLocal
    /\ final_collated_questions = <<>>
    /\ processed_stem_ids = {}
    /\ OuterIdle

\* the ids of a set, ascending: sorted(...)
RECURSIVE Sorted(_)
Sorted(S) ==
    IF S = {} THEN <<>>
    ELSE LET m == CHOOSE a \in S : \A b \in S : a <= b
         IN  <<m>> \o Sorted(S \ {m})

\* d[k] = v added to the dict d (a function on its keys)
DictPut(d, k, v) == [x \in DOMAIN d \cup {k} |-> IF x = k THEN v ELSE d[x]]

Block(source, texts, method, score) ==
    [source_message_id |-> source, option_texts |-> texts, method |-> method, score |-> score]

\* Attach that inserts at the front
AttachFirst(pq, stem_id, block) == [pq EXCEPT ![stem_id].options = <<block>> \o @]

\* potential_questions[stem_id]["options"].append(block)
Attach(pq, stem_id, block) == [pq EXCEPT ![stem_id].options = Append(@, block)]

\* IsStemMessage that takes every message for a stem
IsStemMessageAlways(msg) == TRUE

\* msg.get("is_potential_stem")
IsStemMessage(msg) == "is_potential_stem" \in DOMAIN msg /\ msg.is_potential_stem

\* if not messages: return []
ReturnEmpty ==
    /\ pc = "pass1" /\ InvalidList
    /\ pc' = "done"
    /\ UNCHANGED <<outer, messages, i, potential_questions, associated_option_message_ids,
                   local, final_collated_questions, processed_stem_ids>>

\* pass 1, one message that is a stem
Pass1Stem ==
    /\ pc = "pass1" /\ ~InvalidList /\ i <= Len(messages)
    /\ IsStemMessage(messages[i])
    /\ LET msg == messages[i]
           stem_id == msg.id
           scan == ScanOf(msg.original_text)
           entry == [stem_message |-> msg, stem_text_only |-> scan.stem_text_only,
                     options |-> IF Truthy(scan.internal_options)
                                 THEN <<Block(stem_id, scan.internal_options, "internal", NoScore)>>
                                 ELSE <<>>]
       IN  /\ potential_questions' = DictPut(potential_questions, stem_id, entry)
           /\ associated_option_message_ids' =
                  IF Truthy(scan.internal_options)
                  THEN associated_option_message_ids \cup {stem_id}
                  ELSE associated_option_message_ids
    /\ i' = i + 1
    /\ UNCHANGED <<outer, messages, pc, local, final_collated_questions, processed_stem_ids>>

\* pass 1, one message that is no stem
Pass1Other ==
    /\ pc = "pass1" /\ ~InvalidList /\ i <= Len(messages)
    /\ ~IsStemMessage(messages[i])
    /\ i' = i + 1
    /\ UNCHANGED <<outer, messages, pc, potential_questions, associated_option_message_ids,
                   local, final_collated_questions, processed_stem_ids>>

\* the end of the loop of pass 1
Pass1Done ==
    /\ pc = "pass1" /\ ~InvalidList /\ i > Len(messages)
    /\ pc' = "pass2" /\ i' = 1
    /\ UNCHANGED <<outer, messages, potential_questions, associated_option_message_ids,
                   local, final_collated_questions, processed_stem_ids>>

\* --- pass 2 ---
\* the message of the iteration is a stem, or gave internal options: continue
Pass2Skip ==
    /\ pc = "pass2" /\ i <= Len(messages)
    /\ \/ IsStemMessage(messages[i])
       \/ messages[i].id \in associated_option_message_ids
    /\ local' = [NoLocal EXCEPT !.msg_id = messages[i].id]
    /\ i' = i + 1
    /\ UNCHANGED <<outer, messages, pc, potential_questions, associated_option_message_ids,
                   final_collated_questions, processed_stem_ids>>

\* Examined that takes the messages flagged as stems as well
ExaminedStemsToo(k) ==
    /\ pc = "pass2" /\ k <= Len(messages)
    /\ messages[k].id \notin associated_option_message_ids

\* the message of the iteration is examined: options_in_msg
Examined(k) ==
    /\ pc = "pass2" /\ k <= Len(messages)
    /\ ~IsStemMessage(messages[k])
    /\ messages[k].id \notin associated_option_message_ids

\* extract_options_from_text finds nothing in the message
Pass2NoOptions ==
    /\ Examined(i)
    /\ ~Truthy(OptionsIn(messages[i].original_text))
    /\ local' = [NoLocal EXCEPT !.msg_id = messages[i].id]
    /\ i' = i + 1
    /\ UNCHANGED <<outer, messages, pc, potential_questions, associated_option_message_ids,
                   final_collated_questions, processed_stem_ids>>

\* PrevIsStem with the index test one too high
PrevIsStemFromThird(k) == k > 2 /\ messages[k - 1].id \in DOMAIN potential_questions

\* "if i > 0" and "prev_msg_id in potential_questions" (the list index i is from 0 there)
PrevIsStem(k) == k > 1 /\ messages[k - 1].id \in DOMAIN potential_questions

\* 1. the immediate predecessor is a stem
Pass2Adjacent ==
    /\ Examined(i)
    /\ LET msg_id == messages[i].id
           options_in_msg == OptionsIn(messages[i].original_text)
           prev_msg_id == messages[i - 1].id
       IN  /\ Truthy(options_in_msg)
           /\ PrevIsStem(i)
           /\ potential_questions' =
                  Attach(potential_questions, prev_msg_id,
                         Block(msg_id, options_in_msg, "adjacent", NoScore))
           /\ associated_option_message_ids' = associated_option_message_ids \cup {msg_id}
           /\ local' = [NoLocal EXCEPT !.msg_id = msg_id, !.options_in_msg = options_in_msg,
                                       !.associated = TRUE]
    /\ i' = i + 1
    /\ UNCHANGED <<outer, messages, pc, final_collated_questions, processed_stem_ids>>

\* min_message_id
MinMessageId(msg_id) ==
    IF msg_id - MESSAGE_SEARCH_WINDOW - 1 > 0 THEN msg_id - MESSAGE_SEARCH_WINDOW - 1 ELSE 0

\* InIdWindow without "stem_id < msg_id"
InIdWindowNoUpper(pq, msg_id, stem_id) == stem_id >= MinMessageId(msg_id)

\* a stem inside the message window
InIdWindow(pq, msg_id, stem_id) == stem_id < msg_id /\ stem_id >= MinMessageId(msg_id)

\* the time filter on one stem of the window, for a message with timestamp ts
InTimeWindow(pq, ts, stem_id) ==
    LET min_timestamp == ts - TIME_SEARCH_WINDOW_MINUTES
        stem_ts == pq[stem_id].stem_message.timestamp
    IN  stem_ts /= NoTimestamp /\ stem_ts >= min_timestamp

\* candidate_stem_ids of the message msg, in the order of the dict: pass 1 fills it
\* in list order, which is ascending id order
CandidateStemIds(pq, msg) ==
    LET inId(stem_id) == InIdWindow(pq, msg.id, stem_id)
        inTime(stem_id) == InTimeWindow(pq, msg.timestamp, stem_id)
        byId == SelectSeq(Sorted(DOMAIN pq), inId)
    IN  IF msg.timestamp /= NoTimestamp THEN SelectSeq(byId, inTime) ELSE byId

\* BetterScore with a comparison that is not strict
BetterOrEqualScore(final_score, highest_score) == final_score >= highest_score

\* "if final_score > highest_score"
BetterScore(final_score, highest_score) == final_score > highest_score

\* "for stem_id in candidate_stem_ids", with score[stem_id] the token_set_ratio of the stem
RECURSIVE BestMatch(_, _, _)
BestMatch(st, ids, score) ==
    IF ids = <<>> THEN st
    ELSE LET stem_id == Head(ids)
         IN  BestMatch(IF BetterScore(score[stem_id], st.highest_score)
                       THEN [best_match_stem_id |-> stem_id, highest_score |-> score[stem_id]]
                       ELSE st,
                       Tail(ids), score)

\* Accepts with a strict comparison
AcceptsAbove(best_match_stem_id, highest_score) ==
    best_match_stem_id /= NoStem /\ highest_score > SIMILARITY_THRESHOLD

\* "if best_match_stem_id and highest_score >= SIMILARITY_THRESHOLD"
Accepts(best_match_stem_id, highest_score) ==
    best_match_stem_id /= NoStem /\ highest_score >= SIMILARITY_THRESHOLD

\* 2. not adjacent: the search among the stems of the window, by similarity.
\* fuzz.token_set_ratio belongs to the thefuzz library: its value for the options
\* preview of the message and the text of each candidate stem is an input of the
\* step, score[stem_id], drawn from ScoreValues.
Pass2Search ==
    /\ Examined(i)
    /\ LET msg == messages[i]
           options_in_msg == OptionsIn(msg.original_text)
           candidate_stem_ids == CandidateStemIds(potential_questions, msg)
       IN  /\ Truthy(options_in_msg)
           /\ ~PrevIsStem(i)
           /\ \E score \in [Range(candidate_stem_ids) -> ScoreValues] :
                LET best == BestMatch([best_match_stem_id |-> NoStem, highest_score |-> 0],
                                      candidate_stem_ids, score)
                    hit == /\ Truthy(candidate_stem_ids)
                           /\ Accepts(best.best_match_stem_id, best.highest_score)
                IN  /\ potential_questions' =
                           IF hit
                           THEN Attach(potential_questions, best.best_match_stem_id,
                                       Block(msg.id, options_in_msg, "similarity",
                                             best.highest_score))
                           ELSE potential_questions
                    /\ associated_option_message_ids' =
                           IF hit THEN associated_option_message_ids \cup {msg.id}
                           ELSE associated_option_message_ids
                    /\ local' = [msg_id |-> msg.id, options_in_msg |-> options_in_msg,
                                 associated |-> hit, searched |-> TRUE,
                                 candidate_stem_ids |-> candidate_stem_ids, score |-> score,
                                 best_match_stem_id |-> best.best_match_stem_id,
                                 highest_score |-> best.highest_score]
    /\ i' = i + 1
    /\ UNCHANGED <<outer, messages, pc, final_collated_questions, processed_stem_ids>>

\* the end of the loop of pass 2
Pass2Done ==
    /\ pc = "pass2" /\ i > Len(messages)
    /\ pc' = "pass3" /\ i' = 1
    /\ local' = NoLocal
    /\ UNCHANGED <<outer, messages, potential_questions, associated_option_message_ids,
                   final_collated_questions, processed_stem_ids>>

\* --- pass 3 ---
sorted_stem_ids == Sorted(DOMAIN potential_questions)

\* unique_options of the question of stem_id
UniqueOptionsOf(q_data) ==
    UniqueOptions(CleanOptions(AllOptionTexts(q_data.options)), {})

\* Emits without the test of the options
EmitsWithoutOptions(stem_text, unique_options) == Truthy(stem_text)

\* "if stem_text and unique_options"
Emits(stem_text, unique_options) == Truthy(stem_text) /\ Truthy(unique_options)

\* one stem of sorted_stem_ids: a question is appended when it has a stem text and options
Pass3Step ==
    /\ pc = "pass3" /\ i <= Len(sorted_stem_ids)
    /\ LET stem_id == sorted_stem_ids[i]
           q_data == potential_questions[stem_id]
           stem_text == q_data.stem_text_only
           unique_options == UniqueOptionsOf(q_data)
       IN  IF stem_id \in processed_stem_ids
           THEN UNCHANGED <<final_collated_questions, processed_stem_ids>>
           ELSE IF Emits(stem_text, unique_options)
           THEN /\ final_collated_questions' =
                       Append(final_collated_questions,
                              [stem_id |-> stem_id, stem_text |-> stem_text,
                               options |-> unique_options])
                /\ processed_stem_ids' = processed_stem_ids \cup {stem_id}
           ELSE UNCHANGED <<final_collated_questions, processed_stem_ids>>
    /\ i' = i + 1
    /\ UNCHANGED <<outer, messages, pc, potential_questions, associated_option_message_ids, local>>

\* return final_collated_questions
Return ==
    /\ pc = "pass3" /\ i > Len(sorted_stem_ids)
    /\ pc' = "done"
    /\ UNCHANGED <<outer, messages, i, potential_questions, associated_option_message_ids,
                   local, final_collated_questions, processed_stem_ids>>

Next ==
    \/ ReturnEmpty
    \/ Pass1Stem \/ Pass1Other \/ Pass1Done
    \/ Pass2Skip \/ Pass2NoOptions \/ Pass2Adjacent \/ Pass2Search \/ Pass2Done
    \/ Pass3Step \/ Return

Spec == Init /\ [][Next]_vars

(***************************************************************************)
(* Properties of refine_grouping_with_similarity                           *)
(***************************************************************************)
\* message k has been through its iteration of pass 2
Done2(k) == (pc = "pass2" /\ i > k) \/ pc \in {"pass3", "done"}

\* the blocks attached to stem s
BlocksOf(s) == Range(potential_questions[s].options)

\* stem s holds a block of message m attached by the given method
HasBlock(s, m, method) ==
    \E b \in BlocksOf(s) : b.source_message_id = m /\ b.method = method

\* the stems that hold a block of message m
HoldersOf(m) ==
    {s \in DOMAIN potential_questions : \E b \in BlocksOf(s) : b.source_message_id = m}

\* the message is no stem and the option extractor finds options in it
OptionMessage(k) ==
    /\ ~messages[k].is_potential_stem
    /\ Truthy(OptionsIn(messages[k].original_text))

\* the ids of the questions returned so far
EmittedIds == {final_collated_questions[k].stem_id : k \in DOMAIN final_collated_questions}

\* the cleaned option lines of stem s, all blocks in attachment order
CleanedOf(s) == CleanOptions(AllOptionTexts(potential_questions[s].options))

\* the first position of seq whose lower-cased text is low (0 when there is none)
FirstLower(seq, low) ==
    LET hits == {k \in DOMAIN seq : Lower(seq[k]) = low}
    IN  IF hits = {} THEN 0 ELSE CHOOSE a \in hits : \A b \in hits : a <= b

\* C1: every returned question has a non-empty stem_text and a non-empty options
\* list, and a stem whose blocks leave no option after marker stripping (a stem
\* without any block among them) is in no returned question.
C1_QuestionsHaveStemAndOptions ==
    /\ \A k \in DOMAIN final_collated_questions :
           /\ Truthy(final_collated_questions[k].stem_text)
           /\ Truthy(final_collated_questions[k].options)
    /\ pc = "done" =>
           \A s \in DOMAIN potential_questions :
               CleanedOf(s) = <<>> => s \notin EmittedIds

C1_Witness ==
    /\ pc = "done"
    /\ final_collated_questions /= <<>>
    /\ \E s \in DOMAIN potential_questions :
           potential_questions[s].options = <<>> /\ s \notin EmittedIds

\* C2: a message that is no stem, has options and directly follows a stem is
\* attached to that stem, by adjacency and to no other stem, and its iteration
\* runs no similarity search, whatever the time gap to the stem.
C2_AdjacentFirst ==
    \A k \in DOMAIN messages :
        (Done2(k) /\ OptionMessage(k) /\ k > 1 /\ messages[k - 1].is_potential_stem) =>
            /\ HasBlock(messages[k - 1].id, messages[k].id, "adjacent")
            /\ HoldersOf(messages[k].id) = {messages[k - 1].id}
            /\ ~HasBlock(messages[k - 1].id, messages[k].id, "similarity")
            /\ local.msg_id = messages[k].id => ~local.searched

C2_Witness ==
    /\ pc = "pass2" /\ local.associated /\ ~local.searched
    /\ \E k \in DOMAIN messages :
           /\ k > 1 /\ local.msg_id = messages[k].id
           /\ messages[k - 1].timestamp /= NoTimestamp
           /\ messages[k].timestamp - messages[k - 1].timestamp > TIME_SEARCH_WINDOW_MINUTES
           /\ HasBlock(messages[k - 1].id, messages[k].id, "adjacent")

\* C3: in a similarity search for message m the candidate stems have ids s with
\* m - 15 <= s < m (exactly those stems when m has no timestamp), and no stem
\* receives by similarity a block of a message more than 15 ids after it.
C3_WindowOf15 ==
    /\ local.searched =>
           LET m == local.msg_id
               inWindow == {s \in DOMAIN potential_questions :
                               m - MESSAGE_SEARCH_WINDOW <= s /\ s < m}
           IN  /\ Range(local.candidate_stem_ids) \subseteq inWindow
               /\ messages[m].timestamp = NoTimestamp =>
                      Range(local.candidate_stem_ids) = inWindow
    /\ \A s \in DOMAIN potential_questions : \A b \in BlocksOf(s) :
           b.method = "similarity" => b.source_message_id - s <= MESSAGE_SEARCH_WINDOW

\* C4: in a similarity search a stem of the id window is dropped by the time
\* filter only when the message and the stem both have a timestamp and the
\* stem's is more than 20 minutes before the message's.
C4_TimeFilterKeepsUntimedStems ==
    local.searched =>
        LET m == local.msg_id
        IN  \A s \in DOMAIN potential_questions :
                (InIdWindow(potential_questions, m, s)
                     /\ s \notin Range(local.candidate_stem_ids)) =>
                    /\ messages[m].timestamp /= NoTimestamp
                    /\ messages[s].timestamp /= NoTimestamp
                    /\ messages[s].timestamp <
                           messages[m].timestamp - TIME_SEARCH_WINDOW_MINUTES

C6_BestScoreEarliestStem ==
    (local.searched /\ local.associated) =>
        LET cands == Range(local.candidate_stem_ids)
        IN  \E s \in cands :
                /\ HoldersOf(local.msg_id) = {s}
                /\ \A t \in cands : local.score[t] <= local.score[s]
                /\ \A t \in cands : local.score[t] = local.score[s] => s <= t

C6_Witness ==
    /\ local.searched /\ local.associated
    /\ \E s, t \in Range(local.candidate_stem_ids) :
           /\ s < t
           /\ local.score[s] = local.score[t]
           /\ \A u \in Range(local.candidate_stem_ids) : local.score[u] <= local.score[s]
           /\ HoldersOf(local.msg_id) = {s}

\* C7: a block of a message that is no stem is attached only in that message's
\* own iteration of pass 2, and only to a stem before it: a block that found
\* no stem then is not taken up again, nor given to a later stem.
C7_OrphansStayOrphans ==
    [][ \A s \in DOMAIN potential_questions' :
            \A b \in Range(potential_questions'[s].options) :
                (s \notin DOMAIN potential_questions \/ b \notin BlocksOf(s)) =>
                    \/ pc = "pass1" /\ messages[i].id = s /\ b.source_message_id = s
                    \/ /\ pc = "pass2"
                       /\ b.source_message_id = messages[i].id
                       /\ s < b.source_message_id ]_vars

C7_Witness ==
    /\ pc = "done"
    /\ \E m, s \in DOMAIN messages :
           /\ OptionMessage(m)
           /\ HoldersOf(messages[m].id) = {}
           /\ m < s /\ messages[s].is_potential_stem

\* the stripped non-empty lines of each text of the model, in their order
StrippedLines == [t \in Texts |-> NonEmptyStripped(SplitLines(t))]

\* is a a subsequence of b, in order
RECURSIVE IsSubsequence(_, _)
IsSubsequence(a, b) ==
    IF a = <<>> THEN TRUE
    ELSE IF b = <<>> THEN FALSE
    ELSE IF Head(a) = Head(b) THEN IsSubsequence(Tail(a), Tail(b))
    ELSE IsSubsequence(a, Tail(b))

\* C8: the questions are in strictly ascending stem id order; the blocks of a
\* stem are its internal block first, then external blocks in the order of
\* their source messages, each with its lines in their original order; and the
\* options of a question follow the order of these lines.
C8_AttachmentOrder ==
    /\ \A a, b \in DOMAIN final_collated_questions :
           a < b => final_collated_questions[a].stem_id < final_collated_questions[b].stem_id
    /\ \A s \in DOMAIN potential_questions :
           LET blocks == potential_questions[s].options
           IN  /\ \A a, b \in DOMAIN blocks :
                      a < b => /\ blocks[a].source_message_id < blocks[b].source_message_id
                               /\ blocks[b].method /= "internal"
               /\ \A a \in DOMAIN blocks :
                      /\ blocks[a].method = "internal" <=> blocks[a].source_message_id = s
                      /\ IsSubsequence(blocks[a].option_texts,
                             StrippedLines[
                                 messages[blocks[a].source_message_id].original_text])
    /\ \A k \in DOMAIN final_collated_questions :
           LET q == final_collated_questions[k]
               all == CleanedOf(q.stem_id)
           IN  \A a, b \in DOMAIN q.options :
                   a < b => /\ FirstLower(all, Lower(q.options[a])) > 0
                            /\ FirstLower(all, Lower(q.options[a]))
                                   < FirstLower(all, Lower(q.options[b]))

C8_Witness ==
    /\ pc = "done"
    /\ \E k \in DOMAIN final_collated_questions :
           LET blocks == potential_questions[final_collated_questions[k].stem_id].options
           IN  /\ Len(blocks) >= 3
               /\ blocks[1].method = "internal"
               /\ blocks[2].method = "adjacent"
               /\ blocks[3].method = "similarity"
               /\ Len(final_collated_questions[k].options) >= 3

\* C9: in a returned question no two options are equal when lower-cased; every
\* cleaned option line is represented, by the first line of its lower-cased
\* text, in that line's own casing.
C9_OptionsUniqueIgnoringCase ==
    \A k \in DOMAIN final_collated_questions :
        LET q == final_collated_questions[k]
            all == CleanedOf(q.stem_id)
        IN  /\ \A a, b \in DOMAIN q.options :
                   a /= b => Lower(q.options[a]) /= Lower(q.options[b])
            /\ \A x \in DOMAIN all :
                   \E a \in DOMAIN q.options : Lower(q.options[a]) = Lower(all[x])
            /\ \A a \in DOMAIN q.options :
                   /\ FirstLower(all, Lower(q.options[a])) > 0
                   /\ q.options[a] = all[FirstLower(all, Lower(q.options[a]))]

C9_Witness ==
    \E k \in DOMAIN final_collated_questions :
        LET q == final_collated_questions[k]
            all == CleanedOf(q.stem_id)
        IN  \E x, y \in DOMAIN all :
                /\ x < y /\ all[x] /= all[y] /\ Lower(all[x]) = Lower(all[y])
                /\ \E a \in DOMAIN q.options : q.options[a] = all[x]

\* C10: no two returned questions have stem texts that are equal after
\* lower-casing and trimming.
C10_StemsUniqueNormalised ==
    \A a, b \in DOMAIN final_collated_questions :
        a /= b => Lower(Strip(final_collated_questions[a].stem_text))
                      /= Lower(Strip(final_collated_questions[b].stem_text))

(***************************************************************************)
(* Scanning a text from the left: the timestamp regexes and strptime       *)
(***************************************************************************)
DigitSeq == <<"0","1","2","3","4","5","6","7","8","9">>

IsDigit(c) == c \in DigitChars

DigitValue(c) == (CHOOSE k \in DOMAIN DigitSeq : DigitSeq[k] = c) - 1

\* the number of digits of s from position k on, at most max: a greedy \d{1,max}
RECURSIVE NumDigits(_, _, _)
NumDigits(s, k, max) ==
    IF max > 0 /\ k <= Len(s) /\ IsDigit(s[k]) THEN 1 + NumDigits(s, k + 1, max - 1) ELSE 0

\* int() of the digits s[k .. k + n - 1]
RECURSIVE NumberAt(_, _, _)
NumberAt(s, k, n) ==
    IF n = 0 THEN 0 ELSE 10 * NumberAt(s, k, n - 1) + DigitValue(s[k + n - 1])

\* the number of whitespace characters of s from position k on
SpacesAt(s, k) == SkipSpace(s, k) - k

\* The items of a pattern, matched one after the other from the left:
\* \d{min,max} (its number kept under name), one character of a set, an optional
\* character of a set, \s{min,}, an optional group, AM or PM in either case, and the
\* start or end of a capture. Each item takes the longest match; in the patterns
\* of the source no shorter match of an item lets a later item match.
Digits(min, max, name) == [t |-> "digits", min |-> min, max |-> max, name |-> name]
Char(set) == [t |-> "char", set |-> set]
OptChar(set) == [t |-> "optchar", set |-> set]
Spaces(min) == [t |-> "spaces", min |-> min]
Opt(sub) == [t |-> "opt", sub |-> sub]
Meridian == [t |-> "meridian"]
Mark(name, offset) == [t |-> "mark", name |-> name, offset |-> offset]

FieldNames == {"d", "m", "y", "Y", "H", "I", "M", "S", "p", "from", "to", "_"}

\* the start of a scan of s: position 1, nothing failed, no field read
Cursor(s) == [s |-> s, pos |-> 1, ok |-> TRUE, val |-> [n \in FieldNames |-> -1]]

RECURSIVE Scan(_, _), Step(_, _)
Step(c, it) ==
    IF ~c.ok THEN c
    ELSE CASE it.t = "digits" ->
                LET n == NumDigits(c.s, c.pos, it.max)
                IN  IF n < it.min THEN [c EXCEPT !.ok = FALSE]
                    ELSE [c EXCEPT !.pos = @ + n, !.val[it.name] = NumberAt(c.s, c.pos, n)]
           [] it.t = "char" ->
                IF c.pos <= Len(c.s) /\ c.s[c.pos] \in it.set
                THEN [c EXCEPT !.pos = @ + 1] ELSE [c EXCEPT !.ok = FALSE]
           [] it.t = "optchar" ->
                IF c.pos <= Len(c.s) /\ c.s[c.pos] \in it.set
                THEN [c EXCEPT !.pos = @ + 1] ELSE c
           [] it.t = "spaces" ->
                IF SpacesAt(c.s, c.pos) < it.min THEN [c EXCEPT !.ok = FALSE]
                ELSE [c EXCEPT !.pos = SkipSpace(c.s, c.pos)]
           [] it.t = "opt" ->
                IF Scan(c, it.sub).ok THEN Scan(c, it.sub) ELSE c
           [] it.t = "meridian" ->
                IF /\ c.pos + 1 <= Len(c.s)
                   /\ LowerChar(c.s[c.pos]) \in {"a", "p"}
                   /\ LowerChar(c.s[c.pos + 1]) = "m"
                THEN [c EXCEPT !.pos = @ + 2,
                               !.val["p"] = IF LowerChar(c.s[c.pos]) = "p" THEN 1 ELSE 0]
                ELSE [c EXCEPT !.ok = FALSE]
           [] it.t = "mark" -> [c EXCEPT !.val[it.name] = c.pos + it.offset]

Scan(c, pattern) ==
    IF pattern = <<>> THEN c ELSE Scan(Step(c, Head(pattern)), Tail(pattern))

\* The regular expression of one token of a strptime format: a directive, a blank
\* (any run of whitespace), or a character that stands for itself, in either case.
Directive(token) ==
    CASE token = "%d" -> Digits(1, 2, "d")
      [] token = "%m" -> Digits(1, 2, "m")
      [] token = "%y" -> Digits(2, 2, "y")
      [] token = "%Y" -> Digits(4, 4, "Y")
      [] token = "%H" -> Digits(1, 2, "H")
      [] token = "%I" -> Digits(1, 2, "I")
      [] token = "%M" -> Digits(1, 2, "M")
      [] token = "%S" -> Digits(1, 2, "S")
      [] token = "%p" -> Meridian
      [] token = " " -> Spaces(1)
      [] OTHER -> Char({c \in Range(UpperChars) \cup Range(LowerChars) \cup {token} :
                            LowerChar(c) = LowerChar(token)})

IsLeap(y) == y % 4 = 0 /\ (y % 100 /= 0 \/ y % 400 = 0)

DaysInMonth(y, m) ==
    IF m = 2 THEN (IF IsLeap(y) THEN 29 ELSE 28)
    ELSE IF m \in {4, 6, 9, 11} THEN 30 ELSE 31

RECURSIVE DaysBeforeMonth(_, _)
DaysBeforeMonth(y, m) ==
    IF m <= 1 THEN 0 ELSE DaysBeforeMonth(y, m - 1) + DaysInMonth(y, m - 1)

\* date.toordinal(): the days from 0001-01-01, that day being 1
Ordinal(y, m, d) ==
    365 * (y - 1) + ((y - 1) \div 4) - ((y - 1) \div 100) + ((y - 1) \div 400)
        + DaysBeforeMonth(y, m) + d

\* a datetime: its day (the ordinal) and its second of the day
DateTime(y, m, d, H, M, S) == [day |-> Ordinal(y, m, d), second |-> 3600 * H + 60 * M + S]

\* the result of a strptime that raises ValueError
NoDateTime == [day |-> 0, second |-> 0]

\* the field of the scan, or its default when the format has no such directive
Field(val, name, default) == IF val[name] = -1 THEN default ELSE val[name]

\* the datetime of the fields val that a format has read, NoDateTime when a field
\* is out of its range
DateTimeOfFields(val) ==
    LET year == IF val["Y"] /= -1 THEN val["Y"]
                ELSE IF val["y"] = -1 THEN 1900
                ELSE IF val["y"] <= 68 THEN 2000 + val["y"] ELSE 1900 + val["y"]
        hour == IF val["I"] = -1 THEN Field(val, "H", 0)
                ELSE (val["I"] % 12) + (IF val["p"] = 1 THEN 12 ELSE 0)
    IN  IF /\ year >= 1
           /\ Field(val, "m", 1) \in 1..12
           /\ Field(val, "d", 1) >= 1
           /\ Field(val, "d", 1) <= DaysInMonth(year, Field(val, "m", 1))
           /\ Field(val, "H", 0) \in 0..23
           /\ Field(val, "I", 12) \in 1..12
           /\ Field(val, "M", 0) \in 0..59
           /\ Field(val, "S", 0) \in 0..59
        THEN DateTime(year, Field(val, "m", 1), Field(val, "d", 1), hour,
                      Field(val, "M", 0), Field(val, "S", 0))
        ELSE NoDateTime

\* the scan of s by the format fmt, a sequence of tokens
ScanFormat(s, fmt) == Scan(Cursor(s), [k \in DOMAIN fmt |-> Directive(fmt[k])])

\* the format matches the whole of s
FullMatch(c) == c.ok /\ c.pos = Len(c.s) + 1

\* datetime.strptime(s, fmt)
strptime(s, fmt) ==
    IF FullMatch(ScanFormat(s, fmt)) THEN DateTimeOfFields(ScanFormat(s, fmt).val)
    ELSE NoDateTime

\* the first format of formats that parses s, NoDateTime when none does
RECURSIVE FirstParse(_, _)
FirstParse(s, formats) ==
    IF formats = <<>> THEN NoDateTime
    ELSE IF strptime(s, Head(formats)) /= NoDateTime THEN strptime(s, Head(formats))
    ELSE FirstParse(s, Tail(formats))

\* s.replace(c, '')
RECURSIVE Remove(_, _)
Remove(s, c) ==
    IF s = <<>> THEN <<>>
    ELSE (IF Head(s) = c THEN <<>> ELSE <<Head(s)>>) \o Remove(Tail(s), c)

(***************************************************************************)
(* The transcripts of the model                                            *)
(***************************************************************************)
MaxPieces == 3

\* The pieces of the transcripts: a stem line, an option line of another author,
\* lines without timestamp (an option, a system notice, a line with a label), a
\* chit-chat line whose date no format parses, and a message of seven lines,
\* one blank line among them, too long for the option heuristic.
PieceStem ==
    <<"0","1","/","0","1","/","2","4",","," ","1","0",":","0","0"," ","-"," ","A","l",":"," ",
      "W","h","a","t"," ","i","s"," ","t","h","e"," ","c","a","p","i","t","a","l"," ","o","f",
      " ","F","r","a","n","c","e","?">>
PieceOptions ==
    <<"0","1","/","0","1","/","2","4",","," ","1","0",":","0","1"," ","-"," ","B","o","b",":",
      " ","A","."," ","P","a","r","i","s">>
PieceContinuation ==
    <<"B","."," ","L","y","o","n">>
PieceNotice ==
    <<"B","o","b"," ","l","e","f","t">>
PieceLabel ==
    <<"N","o","t","e",":"," ","s","e","e"," ","f","i","g">>
PieceChat ==
    <<"3","1","/","0","2","/","2","4",","," ","1","0",":","0","2"," ","-"," ","C","y",":"," ",
      "o","k">>
PieceLong ==
    <<"0","1","/","0","1","/","2","4",","," ","1","0",":","3","0"," ","-"," ","C","y",":"," ",
      "x","\n","\n","x","\n","x","\n","x","\n","x","\n","x","\n","x">>

Pieces ==
    {PieceStem, PieceOptions, PieceContinuation, PieceNotice,
     PieceLabel, PieceChat, PieceLong}

\* the transcripts: at most MaxPieces pieces, one below the other
Transcripts == {Join(ps, <<"\n">>) : ps \in BoundedSeq(Pieces, MaxPieces)}

(***************************************************************************)
(* preprocess_transcript                                                   *)
(***************************************************************************)
\* the first group of line_regex with what stands around it:
\* (?:\[?(\d{1,2}/\d{1,2}/\d{2,4},? \d{1,2}:\d{2}(?::\d{2})?(?: [AP]M)?)]? - )
TimestampPattern ==
    << OptChar({"["}), Mark("from", 0),
       Digits(1, 2, "_"), Char({"/"}), Digits(1, 2, "_"), Char({"/"}), Digits(2, 4, "_"),
       OptChar({","}), Char({" "}),
       Digits(1, 2, "_"), Char({":"}), Digits(2, 2, "_"),
       Opt(<<Char({":"}), Digits(2, 2, "_")>>),
       Opt(<<Char({" "}), Char({"A", "P"}), Char({"M"})>>),
       Mark("to", -1), OptChar({"]"}), Char({" "}), Char({"-"}), Char({" "}) >>

\* The optional timestamp of line_regex: group 1 is line[from .. to] and the rest
\* of the line starts after end. It is taken when the text group (.+) finds a
\* character after it.
TimestampPrefix(line) ==
    LET c == Scan(Cursor(line), TimestampPattern)
    IN  IF c.ok /\ c.pos <= Len(line)
        THEN [found |-> TRUE, from |-> c.val["from"], to |-> c.val["to"], end |-> c.pos - 1]
        ELSE [found |-> FALSE, from |-> 1, to |-> 0, end |-> 0]

\* the least k >= from with ": " at k and a character after it, 0 when there is none
RECURSIVE FindColonSpace(_, _)
FindColonSpace(s, from) ==
    IF from + 2 > Len(s) THEN 0
    ELSE IF s[from] = ":" /\ s[from + 1] = " " THEN from
    ELSE FindColonSpace(s, from + 1)

line_regex(line) ==
    LET ts == TimestampPrefix(line)
        k == FindColonSpace(line, ts.end + 1)
        text_from == IF k > 0 THEN k + 2 ELSE ts.end + 1
    IN  [matched |-> Len(line) >= 1,
         timestamp_str |-> SubSeq(line, ts.from, ts.to),
         user_part |-> IF k > 0 THEN SubSeq(line, ts.end + 1, k + 1) ELSE <<>>,
         text |-> SubSeq(line, text_from, Len(line))]

formats_to_try ==
    << <<"%d", "/", "%m", "/", "%y", ",", " ", "%H", ":", "%M">>,
       <<"%d", "/", "%m", "/", "%Y", ",", " ", "%H", ":", "%M">>,
       <<"%m", "/", "%d", "/", "%y", ",", " ", "%I", ":", "%M", " ", "%p">>,
       <<"%d", "/", "%m", "/", "%Y", ",", " ", "%H", ":", "%M", ":", "%S">>,
       <<"%m", "/", "%d", "/", "%Y", ",", " ", "%H", ":", "%M", ":", "%S">> >>

\* The "timestamp" of a message: the minute of the parsed datetime, counted from
\* 0001-01-01 00:00, and NoTimestamp for None. The timestamps of the transcripts
\* of the model carry no seconds.
TimestampOf(dt) ==
    IF dt = NoDateTime THEN NoTimestamp ELSE (dt.day - 1) * 1440 + (dt.second \div 60)

parsed_timestamp(timestamp_str) ==
    FirstParse(Strip(Remove(Remove(timestamp_str, "["), "]")), formats_to_try)

\* the lines of the transcripts, stripped, with the match of line_regex and the
\* parsed timestamp of each of them
PoolLines == UNION {{Strip(l) : l \in Range(SplitLines(t))} : t \in Pieces}
LineMatches == [l \in PoolLines |-> line_regex(l)]
ParsedTimestamps ==
    [ts \in {LineMatches[l].timestamp_str : l \in PoolLines} |->
        TimestampOf(parsed_timestamp(ts))]

\* line_regex.match(line) for a line of the transcripts of the model
MatchOf(line) == LineMatches[line]

\* the "timestamp" of a message with the timestamp_str of such a line
TimestampFor(timestamp_str) == ParsedTimestamps[timestamp_str]

Unknown == <<"U","n","k","n","o","w","n">>

\* the user of a line with a timestamp
UserOf(user_part) ==
    IF Truthy(user_part)
    THEN Remove(Remove(Strip(Remove(user_part, ":")), "LRM"), "RLM")
    ELSE Unknown

\* s ends with suffix
EndsWith(s, suffix) ==
    Len(s) >= Len(suffix) /\ SubSeq(s, Len(s) - Len(suffix) + 1, Len(s)) = suffix

\* sub in s
Contains(s, sub) ==
    \E k \in 1..(Len(s) - Len(sub) + 1) : SubSeq(s, k, k + Len(sub) - 1) = sub

PatLeft == <<"l","e","f","t">>
PatAdded == <<"a","d","d","e","d">>
SystemMsgSubstrings ==
    { <<"c","r","e","a","t","e","d"," ","g","r","o","u","p">>,
      <<"c","h","a","n","g","e","d"," ","t","h","e"," ","s","u","b","j","e","c","t">>,
      <<"c","h","a","n","g","e","d"," ","t","h","i","s"," ","g","r","o","u","p","'","s"," ","i","c","o","n">>,
      <<"LRM","i","m","a","g","e"," ","o","m","i","t","t","e","d">>,
      <<"LRM","v","i","d","e","o"," ","o","m","i","t","t","e","d">>,
      <<"LRM","s","t","i","c","k","e","r"," ","o","m","i","t","t","e","d">>,
      <<"LRM","d","o","c","u","m","e","n","t"," ","o","m","i","t","t","e","d">>,
      <<"LRM","a","u","d","i","o"," ","o","m","i","t","t","e","d">> }

\* is_system_message: any(re.search(p, line, re.IGNORECASE) for p in system_msg_patterns)
is_system_message(line) ==
    \/ EndsWith(Lower(line), PatLeft)
    \/ EndsWith(Lower(line), PatAdded)
    \/ \E p \in SystemMsgSubstrings : Contains(Lower(line), p)

NewMessage(id, timestamp_str, timestamp, user, text) ==
    [id |-> id, timestamp_str |-> timestamp_str, timestamp |-> timestamp, user |-> user,
     original_text |-> Strip(text), cleaned_text |-> Lower(Strip(text))]

\* Continued that leaves the message as it is
ContinuedWithoutLine(msg, text) == msg

\* current_message["original_text"] += "\n" + text, and the same for "cleaned_text"
Continued(msg, text) ==
    [msg EXCEPT !.original_text = @ \o <<"\n">> \o text,
                !.cleaned_text = @ \o <<"\n">> \o Lower(text)]

\* MessageIdNext that gives the same id again
MessageIdSame(counter) == counter

\* message_id_counter += 1
MessageIdNext(counter) == counter + 1

\* ProcessLine that starts a message only on a timestamp one of the formats
\* parses
ProcessLineParsedOnly(st, raw_line) ==
    LET line == Strip(raw_line)
        match == MatchOf(line)
        stored == IF st.current_message /= NoMessage
                  THEN Append(st.messages, st.current_message) ELSE st.messages
        id == MessageIdNext(st.message_id_counter)
    IN  IF ~Truthy(line) THEN st
        ELSE IF match.matched
        THEN IF /\ Truthy(match.timestamp_str)
                /\ TimestampFor(match.timestamp_str) /= NoTimestamp
             THEN [messages |-> stored,
                   message_id_counter |-> id,
                   current_message |->
                       NewMessage(id, match.timestamp_str,
                                  TimestampFor(match.timestamp_str),
                                  UserOf(match.user_part), match.text)]
             ELSE IF Truthy(match.text)
             THEN IF st.current_message /= NoMessage
                  THEN [st EXCEPT !.current_message = Continued(@, match.text)]
                  ELSE [st EXCEPT !.message_id_counter = id,
                                  !.current_message =
                                      NewMessage(id, <<>>, NoTimestamp, Unknown, match.text)]
             ELSE st
        ELSE IF st.current_message /= NoMessage /\ ~is_system_message(line)
        THEN [st EXCEPT !.current_message = Continued(@, line)]
        ELSE st

\* One iteration of "for line in transcript_text.splitlines()" on the state st of
\* the locals messages, current_message and message_id_counter.
ProcessLine(st, raw_line) ==
    LET line == Strip(raw_line)
        match == MatchOf(line)
        stored == IF st.current_message /= NoMessage
                  THEN Append(st.messages, st.current_message) ELSE st.messages
        id == MessageIdNext(st.message_id_counter)
    IN  IF ~Truthy(line) THEN st
        ELSE IF match.matched
        THEN IF Truthy(match.timestamp_str)
             THEN [messages |-> stored,
                   message_id_counter |-> id,
                   current_message |->
                       NewMessage(id, match.timestamp_str,
                                  TimestampFor(match.timestamp_str),
                                  UserOf(match.user_part), match.text)]
             ELSE IF Truthy(match.text)
             THEN IF st.current_message /= NoMessage
                  THEN [st EXCEPT !.current_message = Continued(@, match.text)]
                  ELSE [st EXCEPT !.message_id_counter = id,
                                  !.current_message =
                                      NewMessage(id, <<>>, NoTimestamp, Unknown, match.text)]
             ELSE st
        ELSE IF st.current_message /= NoMessage /\ ~is_system_message(line)
        THEN [st EXCEPT !.current_message = Continued(@, line)]
        ELSE st

(***************************************************************************)
(* identify_potential_stems                                                *)
(***************************************************************************)
stem_keywords ==
    << <<"w","h","o">>,
       <<"w","h","a","t">>,
       <<"w","h","e","n">>,
       <<"w","h","e","r","e">>,
       <<"w","h","y">>,
       <<"h","o","w">>,
       <<"w","h","i","c","h"," ","o","f"," ","t","h","e"," ","f","o","l","l","o","w","i","n","g">>,
       <<"c","h","o","o","s","e"," ","t","h","e">>,
       <<"s","e","l","e","c","t"," ","t","h","e">>,
       <<"n","e","x","t"," ","b","e","s","t"," ","s","t","e","p">>,
       <<"n","e","x","t"," ","b","e","s","t"," ","l","i","n","e">>,
       <<"a","p","p","r","o","a","c","h">>,
       <<"m","a","n","a","g","e","m","e","n","t">>,
       <<"t","r","e","a","t","m","e","n","t">>,
       <<"i","n","d","i","c","a","t","i","o","n">>,
       <<"c","o","n","t","r","a","i","n","d","i","c","a","t","i","o","n">>,
       <<"c","/","i">>,
       <<"r","i","s","k"," ","f","a","c","t","o","r">>,
       <<"c","a","u","s","e">>,
       <<"c","a","u","s","e","s">>,
       <<"e","x","c","e","p","t">>,
       <<"n","o","t"," ","a">>,
       <<"i","n","c","o","r","r","e","c","t">>,
       <<"c","o","r","r","e","c","t"," ","s","t","a","t","e","m","e","n","t">>,
       <<"d","e","f","i","n","i","t","i","o","n">>,
       <<"d","i","a","g","n","o","s","i","s">>,
       <<"d","i","a","g","n","o","s","e">>,
       <<"d","i","f","f","e","r","e","n","t","i","a","t","e">>,
       <<"c","o","m","p","l","i","c","a","t","i","o","n">>,
       <<"c","o","m","p","l","i","c","a","t","i","n","g">>,
       <<"p","r","e","d","i","c","t","o","r">>,
       <<"b","a","s","e","d"," ","o","n">>,
       <<"i","n","v","e","s","t","i","g","a","t","i","o","n"," ","o","f"," ","c","h","o","i","c","e">>,
       <<"m","o","s","t"," ","l","i","k","e","l","y">>,
       <<"p","i","c","t","u","r","e">>,
       <<"s","i","g","n">>,
       <<"t","e","c","h","n","i","q","u","e">>,
       <<"t","r","i","a","l">>,
       <<"r","e","f","e","r","e","n","c","i","n","g">>,
       <<"p","a","r","a","m","e","t","e","r">>,
       <<"v","a","l","u","e">>,
       <<"c","o","u","n","t">>,
       <<"g","r","a","d","i","n","g">>,
       <<"p","l","a","c","e","m","e","n","t">>,
       <<"e","n","t","r","y">>,
       <<"c","r","i","t","e","r","i","a">> >>

\* re.match(r'^\s*q\)\s*', text, re.IGNORECASE)
StartsWithQ(text) ==
    LET k == SkipSpace(text, 1)
    IN  k + 1 <= Len(text) /\ LowerChar(text[k]) = "q" /\ text[k + 1] = ")"

\* len(text.split()): the runs of characters that are no whitespace
WordCount(text) ==
    Cardinality({k \in DOMAIN text :
                    ~IsSpace(text[k]) /\ (k = 1 \/ IsSpace(text[k - 1]))})

\* text.split(':')[-1]
AfterLastColon(text) ==
    LET colons == {k \in DOMAIN text : text[k] = ":"}
        last == IF colons = {} THEN 0 ELSE CHOOSE a \in colons : \A b \in colons : b <= a
    IN  SubSeq(text, last + 1, Len(text))

\* found_keyword
FoundKeyword(text) == \E k \in DOMAIN stem_keywords : Contains(text, stem_keywords[k])

\* MinWordsForKeywordStem and MaxColonTail of the source's thresholds
MinWordsForKeywordStem == 3
MaxColonTail == 15

\* ColonTailShort on the tail as it stands, blanks included
ColonTailShortUntrimmed(text) == Len(AfterLastColon(text)) < MaxColonTail

\* len(text.split(':')[-1].strip()) < 15
ColonTailShort(text) == Len(Strip(AfterLastColon(text))) < MaxColonTail

\* message["is_potential_stem"] for a message with the given cleaned_text
is_potential_stem(text) ==
    IF ~Truthy(text) THEN FALSE
    ELSE IF StartsWithQ(text) THEN TRUE
    ELSE IF EndsWith(text, <<"?">>) THEN TRUE
    ELSE IF FoundKeyword(text) /\ WordCount(text) > MinWordsForKeywordStem THEN TRUE
    ELSE IF /\ FoundKeyword(text) /\ WordCount(text) <= MinWordsForKeywordStem
            /\ (EndsWith(text, <<":">>) \/ Contains(text, <<":">>))
         THEN TRUE
    ELSE IF Contains(text, <<":">>) /\ ColonTailShort(text) THEN TRUE
    ELSE FALSE

\* message.get("cleaned_text", "")
CleanedText(message) ==
    IF "cleaned_text" \in DOMAIN message THEN message.cleaned_text ELSE <<>>

\* the message with message["is_potential_stem"] set
Flagged(message) ==
    [f \in DOMAIN message \cup {"is_potential_stem"} |->
        IF f = "is_potential_stem" THEN is_potential_stem(CleanedText(message))
        ELSE message[f]]

(***************************************************************************)
(* The three stages in sequence: preprocess_transcript, then                *)
(* identify_potential_stems on its result, then                             *)
(* refine_grouping_with_similarity on the flagged messages                  *)
(***************************************************************************)
\* the arguments of preprocess_transcript: a transcript that is a str, the bytes
\* b"B. Lyon", and None
TranscriptArgs ==
    {[text |-> t, type |-> "str"] : t \in Transcripts}
        \cup {[text |-> PieceContinuation, type |-> "bytes"],
              [text |-> <<>>, type |-> "NoneType"]}

\* message lists handed to the second or the third stage that are no list, or empty
InvalidMessageArgs ==
    { [messages |-> <<>>, type |-> "list"],
      [messages |-> <<>>, type |-> "NoneType"],
      [messages |-> Numbered(<<Msg(TextS1, NoTimestamp, TRUE), Msg(TextO1, NoTimestamp, FALSE)>>),
       type |-> "tuple"] }

RefineIdle ==
    /\ potential_questions = <<>>
    /\ associated_option_message_ids = {}
    /\ local = NoLocal
    /\ final_collated_questions = <<>>
    /\ processed_stem_ids = {}

PipeInit ==
    /\ i = 1
    /\ WebIdle
    /\ UnitsIdle
    /\ current_message = NoMessage
    /\ message_id_counter = 0
    /\ RefineIdle
    /\ \/ \E arg \in TranscriptArgs :
              /\ transcript_text = arg.text /\ arg_type = arg.type
              /\ messages = <<>> /\ pc = "preprocess"
       \/ \E arg \in InvalidMessageArgs, stage \in {"identify", "pass1"} :
              /\ messages = arg.messages /\ arg_type = arg.type
              /\ transcript_text = <<>> /\ pc = stage

\* InvalidTranscript that tests the emptiness alone
InvalidTranscriptEmptyOnly == ~Truthy(transcript_text)

\* "not transcript_text or not isinstance(transcript_text, str)"
InvalidTranscript == ~Truthy(transcript_text) \/ arg_type /= "str"

\* return [] of preprocess_transcript; its result goes to the next stage
PreprocessReturnEmpty ==
    /\ pc = "preprocess" /\ InvalidTranscript
    /\ messages' = <<>>
    /\ pc' = "identify" /\ arg_type' = "list"
    /\ UNCHANGED <<transcript_text, current_message, message_id_counter, i,
                   potential_questions, associated_option_message_ids, local,
                   final_collated_questions, processed_stem_ids, web, units>>

\* transcript_text.splitlines()
TranscriptLines == SplitLines(transcript_text)

\* one line of the loop
PreprocessLine ==
    /\ pc = "preprocess" /\ ~InvalidTranscript /\ i <= Len(TranscriptLines)
    /\ LET st == ProcessLine([messages |-> messages, current_message |-> current_message,
                              message_id_counter |-> message_id_counter],
                             TranscriptLines[i])
       IN  /\ messages' = st.messages
           /\ current_message' = st.current_message
           /\ message_id_counter' = st.message_id_counter
    /\ i' = i + 1
    /\ UNCHANGED <<transcript_text, arg_type, pc, potential_questions,
                   associated_option_message_ids, local, final_collated_questions,
                   processed_stem_ids, web, units>>

\* after the loop: the last message is appended, and the list returned
PreprocessReturn ==
    /\ pc = "preprocess" /\ ~InvalidTranscript /\ i > Len(TranscriptLines)
    /\ messages' = IF current_message /= NoMessage
                   THEN Append(messages, current_message) ELSE messages
    /\ pc' = "identify" /\ arg_type' = "list" /\ i' = 1
    /\ UNCHANGED <<transcript_text, current_message, message_id_counter,
                   potential_questions, associated_option_message_ids, local,
                   final_collated_questions, processed_stem_ids, web, units>>

\* return [] of identify_potential_stems
IdentifyReturnEmpty ==
    /\ pc = "identify" /\ InvalidList
    /\ messages' = <<>>
    /\ pc' = "pass1" /\ arg_type' = "list" /\ i' = 1
    /\ UNCHANGED <<transcript_text, current_message, message_id_counter,
                   potential_questions, associated_option_message_ids, local,
                   final_collated_questions, processed_stem_ids, web, units>>

\* "for message in messages": the flag of one message
IdentifyMessage ==
    /\ pc = "identify" /\ ~InvalidList /\ i <= Len(messages)
    /\ messages' = [messages EXCEPT ![i] = Flagged(@)]
    /\ i' = i + 1
    /\ UNCHANGED <<outer, pc, potential_questions, associated_option_message_ids, local,
                   final_collated_questions, processed_stem_ids>>

\* return messages
IdentifyReturn ==
    /\ pc = "identify" /\ ~InvalidList /\ i > Len(messages)
    /\ pc' = "pass1" /\ i' = 1
    /\ UNCHANGED <<outer, messages, potential_questions, associated_option_message_ids,
                   local, final_collated_questions, processed_stem_ids>>

PipeNext ==
    \/ PreprocessReturnEmpty \/ PreprocessLine \/ PreprocessReturn
    \/ IdentifyReturnEmpty \/ IdentifyMessage \/ IdentifyReturn
    \/ Next

SpecPipe == PipeInit /\ [][PipeNext]_vars

(***************************************************************************)
(* Properties of preprocess_transcript and of the three stages in sequence *)
(***************************************************************************)
\* the line the loop of preprocess_transcript is at, stripped
CurrentLine == Strip(TranscriptLines[i])

\* preprocess_transcript takes a step on a line without timestamp while a message
\* is active
UntimedLineStep ==
    /\ pc = "preprocess" /\ Truthy(transcript_text) /\ arg_type = "str"
    /\ i <= Len(TranscriptLines) /\ i' = i + 1
    /\ current_message /= NoMessage
    /\ Truthy(CurrentLine)
    /\ ~TimestampPrefix(CurrentLine).found

\* the line ends with "left" or "added", or contains one of the other notices,
\* in either case
SystemNotice(line) ==
    \/ EndsWith(Lower(line), <<"l","e","f","t">>)
    \/ EndsWith(Lower(line), <<"a","d","d","e","d">>)
    \/ \E p \in SystemMsgSubstrings : Contains(Lower(line), p)

\* C11: the messages preprocess_transcript returns carry the ids 1, 2, ..., n in
\* list order, and every message it created is in the list: while it runs, the
\* messages stored and the active one are those created so far, and after its
\* return the list has as many messages as were created.
C11_IdsArePositions ==
    /\ \A k \in DOMAIN messages : messages[k].id = k
    /\ pc = "preprocess" =>
           /\ current_message /= NoMessage =>
                  /\ current_message.id = message_id_counter
                  /\ Len(messages) = message_id_counter - 1
           /\ current_message = NoMessage =>
                  (Len(messages) = 0 /\ message_id_counter = 0)
    /\ (pc /= "preprocess" /\ Truthy(transcript_text)) =>
           Len(messages) = message_id_counter

C11_Witness ==
    /\ pc = "identify" /\ i = 1
    /\ message_id_counter = MaxPieces
    /\ Len(messages) = MaxPieces
    /\ messages[MaxPieces].id = MaxPieces

\* C12: a continuation line (not blank, without timestamp prefix, read while a
\* message is active) that is no system notice is appended to the raw text of the
\* active message as it stands, after a line break.
C12_ContinuationVerbatim ==
    [][(UntimedLineStep /\ ~SystemNotice(CurrentLine)) =>
           current_message'.original_text =
               current_message.original_text \o <<"\n">> \o CurrentLine]_vars

\* C13: a line without timestamp that is read while a message is active and that
\* matches a system-notice pattern is dropped: the active message keeps its text,
\* and no message is created or stored.
C13_SystemNoticeDropped ==
    [][(UntimedLineStep /\ SystemNotice(CurrentLine)) =>
           /\ current_message' = current_message
           /\ messages' = messages
           /\ message_id_counter' = message_id_counter]_vars

\* line k of the transcript starts a message: it has a timestamp, or it is the
\* first line that is not blank
StartsMessage(k) ==
    /\ Truthy(Strip(TranscriptLines[k]))
    /\ \/ TimestampPrefix(Strip(TranscriptLines[k])).found
       \/ \A j \in 1..(k - 1) : ~Truthy(Strip(TranscriptLines[j]))

\* the id of the message that line k starts
MessageIdOfLine(k) == Cardinality({j \in 1..k : StartsMessage(j)})

\* the text of the message that line k starts, as far as that line gives it
TextOfLine(k) == Strip(line_regex(Strip(TranscriptLines[k])).text)

\* line k is a stem on its own, line k + 1 a system notice, and line k + 2 starts
\* a message that is no stem and holds options
StemNoticeOptions(k) ==
    /\ k + 2 <= Len(TranscriptLines)
    /\ StartsMessage(k) /\ EndsWith(TextOfLine(k), <<"?">>)
    /\ ~StartsMessage(k + 1) /\ SystemNotice(Strip(TranscriptLines[k + 1]))
    /\ StartsMessage(k + 2) /\ ~EndsWith(TextOfLine(k + 2), <<"?">>)
    /\ option_marker_regex(TextOfLine(k + 2)) > 0

\* C14: in the result of the three stages, no option of a question and no option
\* block of a stem is a system-notice line, and when a stem line is followed by a
\* system notice and then by an option message, that message is attached to the
\* stem with method "adjacent".
C14_NoticeNeverOption ==
    (pc = "done" /\ Truthy(transcript_text) /\ message_id_counter > 0) =>
        /\ \A q \in Range(final_collated_questions) :
               \A o \in Range(q.options) : ~SystemNotice(o)
        /\ \A s \in DOMAIN potential_questions : \A b \in BlocksOf(s) :
               \A o \in Range(b.option_texts) : ~SystemNotice(o)
        /\ \A k \in DOMAIN TranscriptLines :
               StemNoticeOptions(k) =>
                   /\ MessageIdOfLine(k) \in DOMAIN potential_questions
                   /\ HasBlock(MessageIdOfLine(k), MessageIdOfLine(k + 2), "adjacent")

\* C15: each stage returns an empty list when its argument is empty or of the
\* wrong type: preprocess_transcript for what is no str, the other two for what is
\* no list. The list a stage returns is the messages of the next stage, and the
\* result of the last is final_collated_questions.
C15_InvalidInputGivesEmptyList ==
    [][/\ (pc = "preprocess" /\ (transcript_text = <<>> \/ arg_type /= "str")) =>
              (pc' = "identify" /\ messages' = <<>>)
       /\ (pc = "identify" /\ (messages = <<>> \/ arg_type /= "list")) =>
              (pc' = "pass1" /\ messages' = <<>>)
       /\ (pc = "pass1" /\ (messages = <<>> \/ arg_type /= "list")) =>
              (pc' = "done" /\ final_collated_questions' = <<>>)]_vars

C15_Witness ==
    /\ pc = "done"
    /\ arg_type = "tuple" /\ Truthy(messages)
    /\ final_collated_questions = <<>>

\* Scenario A: a stem line, an option line of another author one minute later,
\* and a second option on a line without timestamp
ScenarioA == Join(<<PieceStem, PieceOptions, PieceContinuation>>, <<"\n">>)

ScenarioAStem == <<"W","h","a","t"," ","i","s"," ","t","h","e"," ","c","a","p","i","t","a","l"," ","o","f"," ","F","r","a","n","c","e","?">>

\* C16: for Scenario A the three stages return one question, with the text of the
\* stem line as stem_text and the options Paris and Lyon in this order, the
\* options attached to the stem by adjacency and by nothing else.
C16_ScenarioA ==
    (pc = "done" /\ transcript_text = ScenarioA /\ message_id_counter > 0) =>
        /\ final_collated_questions =
               << [stem_id |-> 1, stem_text |-> ScenarioAStem,
                   options |-> << <<"P","a","r","i","s">>, <<"L","y","o","n">> >>] >>
        /\ {b.method : b \in BlocksOf(1)} = {"adjacent"}
        /\ HasBlock(1, 2, "adjacent")

C16_Witness ==
    /\ pc = "done" /\ transcript_text = ScenarioA
    /\ Len(final_collated_questions) = 1
    /\ Len(messages) = 2

\* C17: every question returned has as stem_id the id of a message flagged
\* is_potential_stem, and when no message is flagged the result is empty.
C17_QuestionsComeFromStems ==
    /\ \A q \in Range(final_collated_questions) :
           \E k \in DOMAIN messages :
               /\ messages[k].id = q.stem_id
               /\ messages[k].is_potential_stem
    /\ (pc = "done" /\ \A k \in DOMAIN messages : ~messages[k].is_potential_stem) =>
           final_collated_questions = <<>>

\* a transcript of chit-chat alone has gone through the three stages
C17_Witness ==
    /\ pc = "done"
    /\ Len(messages) = MaxPieces
    /\ \A k \in DOMAIN messages :
           messages[k].original_text = <<"o","k">> /\ ~messages[k].is_potential_stem
    /\ final_collated_questions = <<>>

(***************************************************************************)
(* identify_potential_stems on message lists of its own                    *)
(***************************************************************************)
MaxStemMsgs == 2

\* The texts of the messages: one for each rule of the classifier and for the
\* limits of its thresholds (3 words; 15 characters after the last colon, with
\* and without a blank before them), and texts that no rule matches.
StemTextQ ==
    <<" ","Q",")"," ","x">>
StemTextQuestion ==
    <<"o","k","?">>
StemTextKeywordLong ==
    <<"w","h","a","t"," ","i","s"," ","i","t"," ","n","o","w">>
StemTextKeywordShort ==
    <<"w","h","a","t"," ","i","s"," ","i","t">>
StemTextKeywordColon ==
    <<"s","i","g","n",":","a","b","c","d","e","f","g","h","i","j","k","l","m","n","o">>
StemTextColonBlank ==
    <<"x",":"," ","a","b","c","d","e","f","g","h","i","j","k","l","m","n">>
StemTextColonLong ==
    <<"x",":","a","b","c","d","e","f","g","h","i","j","k","l","m","n","o">>
StemTextLabel ==
    <<"t","o","p","i","c",":">>
StemTextChat ==
    <<"l","o","l">>
StemTextWords ==
    <<"a"," ","b"," ","c"," ","d">>
StemTextBlank ==
    <<" ">>

StemTexts ==
    {StemTextQ, StemTextQuestion, StemTextKeywordLong, StemTextKeywordShort,
     StemTextKeywordColon, StemTextColonBlank, StemTextColonLong, StemTextLabel,
     StemTextChat, StemTextWords, StemTextBlank}

\* the message lists: at most MaxStemMsgs messages, the ids by position; the
\* empty text also as a message without "cleaned_text"
StemMessages(texts) ==
    [k \in DOMAIN texts |->
        IF texts[k] = <<>> THEN [id |-> k, original_text |-> <<>>]
        ELSE [id |-> k, original_text |-> texts[k], cleaned_text |-> texts[k]]]

StemInit ==
    /\ \E texts \in BoundedSeq(StemTexts \cup {<<>>}, MaxStemMsgs) :
           messages = StemMessages(texts)
    /\ pc = "identify" /\ i = 1
    /\ OuterIdle
    /\ RefineIdle

StemNext == IdentifyReturnEmpty \/ IdentifyMessage \/ IdentifyReturn

SpecStem == StemInit /\ [][StemNext]_vars

\* the rules of the classifier, each on the text alone
Rule1(text) ==
    \E k \in DOMAIN text :
        /\ \A j \in 1..(k - 1) : IsSpace(text[j])
        /\ LowerChar(text[k]) = "q"
        /\ k + 1 <= Len(text) /\ text[k + 1] = ")"

Rule2(text) == text[Len(text)] = "?"

HasKeyword(text) == \E kw \in Range(stem_keywords) : Contains(text, kw)

Rule3(text) == HasKeyword(text) /\ WordCount(text) > 3

Rule4(text) == HasKeyword(text) /\ WordCount(text) <= 3 /\ ":" \in Range(text)

\* the text after the last ":" of text, which holds one
ColonTail(text) ==
    LET last == CHOOSE k \in DOMAIN text :
                    text[k] = ":" /\ \A j \in (k + 1)..Len(text) : text[j] /= ":"
    IN  SubSeq(text, last + 1, Len(text))

Rule5(text) == ":" \in Range(text) /\ Len(ColonTail(text)) < 15

Rule5Trimmed(text) == ":" \in Range(text) /\ Len(Strip(ColonTail(text))) < 15

\* the messages identify_potential_stems has flagged so far
FlaggedSoFar ==
    {k \in DOMAIN messages : "is_potential_stem" \in DOMAIN messages[k]}

\* the loop of identify_potential_stems has flagged the messages before i and no
\* other: a flag is set in the iteration of its message, and never changed
FlagsAreLocal ==
    pc = "identify" => FlaggedSoFar = {k \in DOMAIN messages : k < i}

\* C18: identify_potential_stems flags a message with non-empty text as a stem if
\* and only if one of the five rules holds of its text, rule 5 being: the text
\* contains ":" and what follows its last ":" is shorter than 15 characters. A
\* message is flagged in its own iteration, from its own text.
C18_FiveRules ==
    /\ FlagsAreLocal
    /\ \A k \in FlaggedSoFar :
           LET text == CleanedText(messages[k])
           IN  Truthy(text) =>
                   (messages[k].is_potential_stem <=>
                        (Rule1(text) \/ Rule2(text) \/ Rule3(text) \/ Rule4(text)
                             \/ Rule5(text)))

\* C18 with rule 5 on the trimmed tail: the text contains ":" and what follows
\* its last ":", without the whitespace around it, is shorter than 15 characters.
C18_FiveRulesTrimmed ==
    /\ FlagsAreLocal
    /\ \A k \in FlaggedSoFar :
           LET text == CleanedText(messages[k])
           IN  Truthy(text) =>
                   (messages[k].is_potential_stem <=>
                        (Rule1(text) \/ Rule2(text) \/ Rule3(text) \/ Rule4(text)
                             \/ Rule5Trimmed(text)))

\* a list with a stem by rule 5 behind a message that is no stem has been flagged
C18_Witness ==
    /\ pc = "pass1"
    /\ Len(messages) = MaxStemMsgs
    /\ messages[1].original_text = StemTextChat /\ ~messages[1].is_potential_stem
    /\ messages[MaxStemMsgs].original_text = StemTextColonBlank
    /\ messages[MaxStemMsgs].is_potential_stem

\* ---- The web application (src/app.py) ----

\* the greatest number of lines of an uploaded file, and of calls of
\* save_questions_to_db in a behaviour
MaxFileLines == 3
MaxCalls == 2

\* TIMESTAMP_LINE_REGEX, compiled with re.IGNORECASE and matched at the start of a
\* line; group 1 is line[from .. to]
TIMESTAMP_LINE_REGEX ==
    << Spaces(0), OptChar({"["}), Mark("from", 0),
       Digits(1, 2, "_"), Char({"/"}), Digits(1, 2, "_"), Char({"/"}), Digits(2, 4, "_"),
       OptChar({","}), Spaces(1),
       Digits(1, 2, "_"), Char({":"}), Digits(2, 2, "_"),
       Opt(<<Char({":"}), Digits(2, 2, "_")>>),
       Opt(<<Spaces(0), Meridian>>),
       Mark("to", -1), OptChar({"]"}), Spaces(0), Char({"-"}), Spaces(0) >>

\* TIMESTAMP_LINE_REGEX.match(line) and its group 1
TimestampMatch(line) ==
    LET c == Scan(Cursor(line), TIMESTAMP_LINE_REGEX)
    IN  [found |-> c.ok,
         timestamp_str |-> IF c.ok THEN SubSeq(line, c.val["from"], c.val["to"]) ELSE <<>>]

\* the last format has the letter Y where a directive %Y was meant
DATE_FORMATS_TO_TRY ==
    << <<"%d", "/", "%m", "/", "%y", ",", " ", "%H", ":", "%M">>,
       <<"%d", "/", "%m", "/", "%Y", ",", " ", "%H", ":", "%M">>,
       <<"%m", "/", "%d", "/", "%y", ",", " ", "%I", ":", "%M", " ", "%p">>,
       <<"%m", "/", "%d", "/", "%Y", ",", " ", "%I", ":", "%M", " ", "%p">>,
       <<"%d", "/", "%m", "/", "%y", ",", " ", "%H", ":", "%M", ":", "%S">>,
       <<"%d", "/", "%m", "/", "%Y", ",", " ", "%H", ":", "%M", ":", "%S">>,
       <<"%m", "/", "%d", "/", "%y", ",", " ", "%I", ":", "%M", ":", "%S", " ", "%p">>,
       <<"%m", "/", "%d", "/", "Y", ",", " ", "%I", ":", "%M", ":", "%S", " ", "%p">> >>

\* parse_timestamp_from_string(ts_str): NoDateTime for None
parse_timestamp_from_string(ts_str) ==
    IF ~Truthy(ts_str) THEN NoDateTime
    ELSE FirstParse(Strip(Remove(Remove(ts_str, "["), "]")), DATE_FORMATS_TO_TRY)

\* a <= b on datetimes
NotAfter(a, b) == a.day < b.day \/ (a.day = b.day /\ a.second <= b.second)

\* The lines of the uploaded files, each with its line end:
\* the first instant of 1 January 2024
LineInside ==
    <<"0","1","/","0","1","/","2","4",","," ","0","0",":","0","0"," ","-"," ","A","l",":"," ",
      "2","+","2","?","\n">>

\* the last second of 2 January 2024, in brackets
LineLastSecond ==
    <<"[","0","2","/","0","1","/","2","0","2","4",","," ","2","3",":","5","9",":","5","9","]",
      " ","-"," ","A","."," ","4","\n">>

\* the first instant of 3 January 2024
LineOutside ==
    <<"0","3","/","0","1","/","2","4",","," ","0","0",":","0","0"," ","-"," ","o","k","\n">>

\* 1 January 2024 in the twelve-hour form with seconds and a four-digit year
LineMeridian ==
    <<"1","/","1","/","2","0","2","4",","," ","2",":","3","0",":","5","5"," ","P","M"," ","-",
      " ","4","\n">>

\* a line without a timestamp
LineUntimed ==
    <<"B","."," ","5","\n">>

FileLines == {LineInside, LineLastSecond, LineOutside, LineMeridian, LineUntimed}

\* the match and the parsed timestamp of each of these lines
FileLineMatches == [line \in FileLines |-> TimestampMatch(line)]
FileLineTimestamps ==
    [line \in FileLines |-> parse_timestamp_from_string(FileLineMatches[line].timestamp_str)]

FileMatchOf(line) == IF line \in FileLines THEN FileLineMatches[line] ELSE TimestampMatch(line)

ParsedOf(line) ==
    IF line \in FileLines THEN FileLineTimestamps[line]
    ELSE parse_timestamp_from_string(TimestampMatch(line).timestamp_str)

\* ---- save_questions_to_db ----

\* the state of the stages of the pipeline, which the web application of the model
\* does not run
core == <<messages, potential_questions, associated_option_message_ids, local,
          final_collated_questions, processed_stem_ids, transcript_text,
          current_message, message_id_counter, units>>

CoreIdle ==
    /\ messages = <<>>
    /\ RefineIdle
    /\ transcript_text = <<>>
    /\ current_message = NoMessage
    /\ message_id_counter = 0
    /\ UnitsIdle

\* the questions of the model: two that a call saves and one saved earlier
QuestionA == [stem_text |-> "What is 2+2?", options |-> <<"4", "5">>]
QuestionB == [stem_text |-> "Capital of France?", options |-> <<>>]
QuestionOld == [stem_text |-> "An earlier question", options |-> <<"x">>]

\* {**q, 'processed_at': timestamp_added}
WithProcessedAt(q, timestamp_added) ==
    [k \in DOMAIN q \cup {"processed_at"} |->
        IF k = "processed_at" THEN timestamp_added ELSE q[k]]

\* docs_to_insert
docs_to_insert(list, timestamp_added) ==
    [k \in DOMAIN list |-> WithProcessedAt(list[k], timestamp_added)]

\* a delete_many that removes nothing
DeleteNone(docs) == docs

\* the documents of the collection after collection.delete_many({})
delete_many(docs) == <<>>

\* the documents of the collection after collection.insert_many(new)
insert_many(docs, new) == docs \o new

\* the documents of docs at the positions keep, in their order
RECURSIVE KeepAt(_, _)
KeepAt(docs, keep) ==
    IF docs = <<>> THEN <<>>
    ELSE LET rest == KeepAt(SubSeq(docs, 1, Len(docs) - 1), keep)
         IN  IF Len(docs) \in keep THEN Append(rest, docs[Len(docs)]) ELSE rest

\* "collection is None" or "not isinstance(questions_list, list)"
SaveRefused == collection = "None" \/ arg_type /= "list"

\* datetime.utcnow(): the clock of the model advances by one with each call
utcnow == calls

\* the two guards of save_questions_to_db
SaveRefuse ==
    /\ pc = "save"
    /\ SaveRefused
    /\ result' = [success |-> FALSE,
                  message |-> IF collection = "None" THEN "DB connection not established."
                              ELSE "Invalid input: questions_list must be a list.",
                  count |-> 0]
    /\ pc' = "saved"
    /\ UNCHANGED <<core, i, arg_type, collection, documents, questions_list, calls,
                   request, start_dt, end_dt, filtering_active, filtered_lines, response>>

\* collection.delete_many({}) returns
SaveDelete ==
    /\ pc = "save"
    /\ ~SaveRefused
    /\ documents' = delete_many(documents)
    /\ pc' = "save_cleared"
    /\ UNCHANGED <<core, i, arg_type, collection, questions_list, result, calls,
                   request, start_dt, end_dt, filtering_active, filtered_lines, response>>

\* collection.delete_many({}) raises: the database has removed some of the
\* documents, all or none, and the except clause returns
SaveDeleteRaises ==
    /\ pc = "save"
    /\ ~SaveRefused
    /\ \E keep \in SUBSET DOMAIN documents : documents' = KeepAt(documents, keep)
    /\ result' = [success |-> FALSE, message |-> "Error saving questions to MongoDB",
                  count |-> 0]
    /\ pc' = "saved"
    /\ UNCHANGED <<core, i, arg_type, collection, questions_list, calls,
                   request, start_dt, end_dt, filtering_active, filtered_lines, response>>

\* "if not questions_list: return True, ..., 0"
SaveNothing ==
    /\ pc = "save_cleared"
    /\ ~Truthy(questions_list)
    /\ result' = [success |-> TRUE, message |-> "No questions found to save.", count |-> 0]
    /\ pc' = "saved"
    /\ UNCHANGED <<core, i, arg_type, collection, documents, questions_list, calls,
                   request, start_dt, end_dt, filtering_active, filtered_lines, response>>

\* collection.insert_many(docs_to_insert) returns
SaveInsert ==
    /\ pc = "save_cleared"
    /\ Truthy(questions_list)
    /\ documents' = insert_many(documents, docs_to_insert(questions_list, utcnow))
    /\ result' = [success |-> TRUE, message |-> "Successfully saved questions.",
                  count |-> Len(questions_list)]
    /\ pc' = "saved"
    /\ UNCHANGED <<core, i, arg_type, collection, questions_list, calls,
                   request, start_dt, end_dt, filtering_active, filtered_lines, response>>

\* collection.insert_many(docs_to_insert) raises: the database has inserted the
\* first n documents, and the except clause returns
SaveInsertRaises ==
    /\ pc = "save_cleared"
    /\ Truthy(questions_list)
    /\ \E n \in 0..Len(questions_list) :
           documents' = insert_many(documents,
                                    SubSeq(docs_to_insert(questions_list, utcnow), 1, n))
    /\ result' = [success |-> FALSE, message |-> "Error saving questions to MongoDB",
                  count |-> 0]
    /\ pc' = "saved"
    /\ UNCHANGED <<core, i, arg_type, collection, questions_list, calls,
                   request, start_dt, end_dt, filtering_active, filtered_lines, response>>

\* The arguments of the calls of save_questions_to_db: lists of questions, None
\* and a tuple.
SaveArgs ==
    {[list |-> l, type |-> "list"] :
        l \in {<<>>, <<QuestionA>>, <<QuestionB, QuestionA>>, <<QuestionA, QuestionA>>}}
    \cup {[list |-> <<>>, type |-> "NoneType"], [list |-> <<QuestionA>>, type |-> "tuple"]}

\* a call of save_questions_to_db from outside a request, after the last has returned
SaveCall ==
    /\ pc \in {"idle", "saved"}
    /\ request = NoRequest
    /\ calls < MaxCalls
    /\ \E arg \in SaveArgs : questions_list' = arg.list /\ arg_type' = arg.type
    /\ calls' = calls + 1
    /\ result' = NoResult
    /\ pc' = "save"
    /\ UNCHANGED <<core, i, collection, documents,
                   request, start_dt, end_dt, filtering_active, filtered_lines, response>>

\* the application with or without its database, which holds nothing or one
\* question saved earlier
SaveInit ==
    /\ CoreIdle
    /\ pc = "idle" /\ i = 1 /\ arg_type = "list"
    /\ collection \in {"None", "Collection"}
    /\ documents \in {<<>>, <<WithProcessedAt(QuestionOld, 0)>>}
    /\ questions_list = <<>>
    /\ result = NoResult
    /\ calls = 0
    /\ request = NoRequest
    /\ start_dt = NoDateTime /\ end_dt = NoDateTime
    /\ filtering_active = FALSE
    /\ filtered_lines = <<>>
    /\ response = NoResponse

SaveNext ==
    \/ SaveCall
    \/ SaveRefuse
    \/ SaveDelete
    \/ SaveDeleteRaises
    \/ SaveNothing
    \/ SaveInsert
    \/ SaveInsertRaises

SpecSave == SaveInit /\ [][SaveNext]_vars

\* ---- Claim C19 ----

\* a stored document without the time of its saving
QuestionOf(doc) == [k \in DOMAIN doc \ {"processed_at"} |-> doc[k]]

\* the collection holds the questions of the list of this call, one document for
\* each in the order of the list, all saved by this call
HoldsExactlyTheList ==
    /\ Len(documents) = Len(questions_list)
    /\ \A k \in DOMAIN documents :
           /\ QuestionOf(documents[k]) = questions_list[k]
           /\ documents[k].processed_at = calls

\* a step that adds documents to the collection
Inserts == Len(documents') > Len(documents)

\* C19: after save_questions_to_db returns success for a list L, the empty list
\* included, the collection holds exactly the questions of L and none of the
\* documents stored before the call; and a step that inserts documents finds the
\* collection already cleared by this call.
C19_OverwriteAll ==
    /\ [](pc = "saved" /\ result.success => HoldsExactlyTheList)
    /\ [][Inserts => pc = "save_cleared" /\ documents = <<>>]_vars

\* the second call has returned success for a list of two questions
C19_Witness ==
    /\ pc = "saved" /\ result.success /\ calls = MaxCalls
    /\ questions_list = <<QuestionB, QuestionA>>
    /\ Len(documents) = Len(questions_list)

\* a call has returned success for the empty list
C19_WitnessEmpty ==
    /\ pc = "saved" /\ result.success /\ calls = MaxCalls
    /\ questions_list = <<>> /\ documents = <<>>

\* ---- upload_transcript ----

\* The values of the form fields startDate and endDate; <<>> is a field that is
\* missing or empty, and DateSlashes is not in the form '%Y-%m-%d'.
DateJan1 == <<"2","0","2","4","-","0","1","-","0","1">>
DateJan2 == <<"2","0","2","4","-","0","1","-","0","2">>
DateJan3 == <<"2","0","2","4","-","0","1","-","0","3">>
DateSlashes == <<"0","1","/","0","1","/","2","0","2","4">>

FormDates ==
    {[startDate |-> <<>>, endDate |-> <<>>], [startDate |-> DateJan1, endDate |-> <<>>],
     [startDate |-> DateJan1, endDate |-> DateJan2],
     [startDate |-> DateJan3, endDate |-> DateJan2],
     [startDate |-> DateSlashes, endDate |-> DateJan2],
     [startDate |-> DateJan1, endDate |-> DateSlashes]}

\* the requests of the model: a file of at most MaxFileLines lines with the two
\* form fields, a request without the file part, and one without a file name
Requests ==
    {[form |-> form, files |-> {"transcript"}, filename |-> "chat.txt", lines |-> ls] :
        form \in FormDates, ls \in BoundedSeq(FileLines, MaxFileLines)}
    \cup {[form |-> [startDate |-> <<>>, endDate |-> <<>>], files |-> {},
           filename |-> "", lines |-> <<>>],
          [form |-> [startDate |-> <<>>, endDate |-> <<>>], files |-> {"transcript"},
           filename |-> "", lines |-> <<>>]}

\* datetime.strptime(s, '%Y-%m-%d')
FormDate(s) == strptime(s, <<"%Y", "-", "%m", "-", "%d">>)

\* datetime.combine(d.date(), time.min) and datetime.combine(d.date(), time.max);
\* the timestamps of the lines carry whole seconds, so the last second of the day
\* stands for time.max
StartOfDay(d) == [day |-> d.day, second |-> 0]
EndOfDay(d) == [day |-> d.day, second |-> 86399]

\* include_line of one line of the file
include_line(line, active, start, end) ==
    IF ~active THEN TRUE
    ELSE IF FileMatchOf(line).found
    THEN /\ ParsedOf(line) /= NoDateTime
         /\ NotAfter(start, ParsedOf(line))
         /\ NotAfter(ParsedOf(line), end)
    ELSE TRUE

\* the lists that collate_questions_from_transcript returns: the answers of the
\* language model decide the questions, and without them the list is empty
CollatedLists == {<<>>, <<QuestionA, QuestionB>>}

\* "'transcript' not in request.files"
UploadNoFilePart ==
    /\ pc = "upload"
    /\ "transcript" \notin request.files
    /\ response' = [status |-> 400, success |-> FALSE,
                    message |-> "No transcript file part.", questions_saved |-> 0]
    /\ pc' = "responded"
    /\ UNCHANGED <<core, i, arg_type, collection, documents, questions_list, result,
                   calls, request, start_dt, end_dt, filtering_active, filtered_lines>>

\* "file.filename == ''"
UploadNoFilename ==
    /\ pc = "upload"
    /\ "transcript" \in request.files
    /\ request.filename = ""
    /\ response' = [status |-> 400, success |-> FALSE,
                    message |-> "No selected file.", questions_saved |-> 0]
    /\ pc' = "responded"
    /\ UNCHANGED <<core, i, arg_type, collection, documents, questions_list, result,
                   calls, request, start_dt, end_dt, filtering_active, filtered_lines>>

\* the form fields are read and parsed; a ValueError of the second strptime
\* leaves start_dt assigned
UploadParseDates ==
    /\ pc = "upload"
    /\ "transcript" \in request.files
    /\ request.filename /= ""
    /\ LET start_date_str == request.form.startDate
           end_date_str == request.form.endDate
           given == Truthy(start_date_str) /\ Truthy(end_date_str)
           start_ok == given /\ FormDate(start_date_str) /= NoDateTime
           end_ok == start_ok /\ FormDate(end_date_str) /= NoDateTime
       IN  /\ start_dt' = IF start_ok THEN StartOfDay(FormDate(start_date_str))
                          ELSE NoDateTime
           /\ end_dt' = IF end_ok THEN EndOfDay(FormDate(end_date_str)) ELSE NoDateTime
           /\ filtering_active' = (end_ok /\ NotAfter(start_dt', end_dt'))
    /\ filtered_lines' = <<>>
    /\ i' = 1
    /\ pc' = "filter"
    /\ UNCHANGED <<core, arg_type, collection, documents, questions_list, result,
                   calls, request, response>>

\* one iteration of "for line in text_file"
UploadFilterLine ==
    /\ pc = "filter"
    /\ i <= Len(request.lines)
    /\ filtered_lines' =
           IF include_line(request.lines[i], filtering_active, start_dt, end_dt)
           THEN Append(filtered_lines, request.lines[i]) ELSE filtered_lines
    /\ i' = i + 1
    /\ UNCHANGED <<core, pc, arg_type, collection, documents, questions_list, result,
                   calls, request, start_dt, end_dt, filtering_active, response>>

\* filtered_transcript_text
FilteredText == Join(filtered_lines, <<>>)

\* "if not filtered_transcript_text.strip()": success without a call of the
\* database
UploadEmpty ==
    /\ pc = "filter"
    /\ i > Len(request.lines)
    /\ ~Truthy(Strip(FilteredText))
    /\ response' = [status |-> 200, success |-> TRUE,
                    message |-> "Transcript is empty after applying date filter.",
                    questions_saved |-> 0]
    /\ pc' = "responded"
    /\ UNCHANGED <<core, i, arg_type, collection, documents, questions_list, result,
                   calls, request, start_dt, end_dt, filtering_active, filtered_lines>>

\* collate_questions_from_transcript returns and save_questions_to_db is called
\* with its list
UploadCollate ==
    /\ pc = "filter"
    /\ i > Len(request.lines)
    /\ Truthy(Strip(FilteredText))
    /\ \E collated_questions \in CollatedLists : questions_list' = collated_questions
    /\ arg_type' = "list"
    /\ calls' = calls + 1
    /\ result' = NoResult
    /\ pc' = "save"
    /\ UNCHANGED <<core, i, collection, documents, request, start_dt, end_dt,
                   filtering_active, filtered_lines, response>>

\* the response after save_questions_to_db has returned
UploadRespond ==
    /\ pc = "saved"
    /\ request /= NoRequest
    /\ response' = IF result.success
                   THEN [status |-> 200, success |-> TRUE, message |-> result.message,
                         questions_saved |-> result.count]
                   ELSE [status |-> 500, success |-> FALSE, message |-> result.message,
                         questions_saved |-> 0]
    /\ pc' = "responded"
    /\ UNCHANGED <<core, i, arg_type, collection, documents, questions_list, result,
                   calls, request, start_dt, end_dt, filtering_active, filtered_lines>>

\* one request to /upload, the application with or without its database, which
\* holds one question saved earlier
UploadInit ==
    /\ CoreIdle
    /\ pc = "upload" /\ i = 1 /\ arg_type = "list"
    /\ collection \in {"None", "Collection"}
    /\ documents = <<WithProcessedAt(QuestionOld, 0)>>
    /\ questions_list = <<>>
    /\ result = NoResult
    /\ calls = 0
    /\ request \in Requests
    /\ start_dt = NoDateTime /\ end_dt = NoDateTime
    /\ filtering_active = FALSE
    /\ filtered_lines = <<>>
    /\ response = NoResponse

UploadNext ==
    \/ UploadNoFilePart
    \/ UploadNoFilename
    \/ UploadParseDates
    \/ UploadFilterLine
    \/ UploadEmpty
    \/ UploadCollate
    \/ SaveRefuse
    \/ SaveDelete
    \/ SaveDeleteRaises
    \/ SaveNothing
    \/ SaveInsert
    \/ SaveInsertRaises
    \/ UploadRespond

SpecUpload == UploadInit /\ [][UploadNext]_vars

\* ---- Claim C20 ----

\* The readings of a timestamp as a date and a time of day: the day or the month
\* first, a year of two or of four digits, the time with or without seconds, on
\* the 24-hour or the 12-hour clock.
ReadingFormats ==
    {<<date[1], "/", date[2], "/", year, ",", " ">> \o clock :
        date \in {<<"%d", "%m">>, <<"%m", "%d">>},
        year \in {"%y", "%Y"},
        clock \in {<<"%H", ":", "%M">>, <<"%H", ":", "%M", ":", "%S">>,
                   <<"%I", ":", "%M", " ", "%p">>,
                   <<"%I", ":", "%M", ":", "%S", " ", "%p">>}}

Readings(timestamp_str) ==
    {strptime(timestamp_str, fmt) : fmt \in ReadingFormats} \ {NoDateTime}

LineReadings == [line \in FileLines |-> Readings(TimestampMatch(line).timestamp_str)]

\* the date filter of the request is valid: both dates are given and parse, and
\* the start is not after the end
ValidFilter ==
    /\ Truthy(request.form.startDate) /\ Truthy(request.form.endDate)
    /\ FormDate(request.form.startDate) /= NoDateTime
    /\ FormDate(request.form.endDate) /= NoDateTime
    /\ FormDate(request.form.startDate).day <= FormDate(request.form.endDate).day

\* the instant t lies in the window [startDate 00:00:00, endDate 23:59:59]
InWindow(t) ==
    /\ FormDate(request.form.startDate).day <= t.day
    /\ t.day <= FormDate(request.form.endDate).day

\* a timestamp is detected at the start of the line
Detected(line) == TimestampMatch(line).found

\* the timestamp of the line lies inside the window, however it is read
LiesInside(line) ==
    /\ Detected(line)
    /\ LineReadings[line] /= {}
    /\ \A t \in LineReadings[line] : InWindow(t)

\* the step of the filter on the line at i, and whether it drops the line
FilterStep == pc = "filter" /\ i' = i + 1
Dropped == filtered_lines' = filtered_lines
Kept == filtered_lines' = Append(filtered_lines, request.lines[i])

\* C20: with a valid date filter, a line is dropped only if a timestamp is
\* detected at its start and lies outside the inclusive window; a line without a
\* detected timestamp and a line whose timestamp lies inside the window are
\* kept. With no valid filter no line is dropped.
C20_DropsOnlyOutsideWindow ==
    [][FilterStep =>
          /\ Dropped \/ Kept
          /\ Dropped => /\ ValidFilter
                        /\ Detected(request.lines[i])
                        /\ ~LiesInside(request.lines[i])]_vars

\* the line of 1 January 2024, 2:30:55 PM has been dropped by the filter from
\* 1 January to 2 January 2024
C20_Dropped ==
    /\ pc = "filter" /\ i = 2
    /\ request.form = [startDate |-> DateJan1, endDate |-> DateJan2]
    /\ request.lines[1] = LineMeridian
    /\ filtered_lines = <<>>

\* what the filter does keep: the lines without a detected timestamp, and the lines
\* whose timestamp the formats of DATE_FORMATS_TO_TRY read as an instant of the
\* window
KeepsWhatItParses ==
    [][FilterStep =>
          /\ Dropped \/ Kept
          /\ Dropped => /\ ValidFilter
                        /\ Detected(request.lines[i])
                        /\ \/ ParsedOf(request.lines[i]) = NoDateTime
                           \/ ~InWindow(ParsedOf(request.lines[i]))]_vars

\* ---- extract_options_from_text, line by line ----

\* the greatest number of lines of a text block built from the lines below
MaxBlockLines == 3

\* The lines of the text blocks: a keyword line, a line with a marker, a short
\* line, a line of 101 characters, a line of 85 characters, a marker alone and a
\* blank line.
BlockKeyword == <<"O","p","t","i","o","n","s",":">>
BlockMarked == <<"A","."," ","4">>
BlockShort == <<"y","e","s">>
BlockMarkerOnly == <<"A",".">>
BlockLong == [k \in 1..101 |-> "x"]
BlockMiddle == [k \in 1..85 |-> "y"]
BlockBlank == <<>>

BlockLines ==
    {BlockKeyword, BlockMarked, BlockShort, BlockLong, BlockMiddle, BlockMarkerOnly,
     BlockBlank}

\* four short lines with a blank line after each of the first three, seven lines
\* in all
BlockSevenLines ==
    <<"y","e","s","\n","\n","n","o","\n","\n","o","k","\n","\n","h","m">>

\* six short lines
BlockSixLines ==
    <<"y","e","s","\n","n","o","\n","o","k","\n","h","m","\n","a","1","\n","b","2">>

\* seven short lines
BlockSevenShort ==
    <<"y","e","s","\n","n","o","\n","o","k","\n","h","m","\n","a","1","\n","b","2","\n","c",
      "3">>

BlockTexts ==
    {Join(ls, <<"\n">>) : ls \in BoundedSeq(BlockLines, MaxBlockLines)}
        \cup {BlockSevenLines, BlockSixLines, BlockSevenShort}

\* lines = text.splitlines()
BlockLinesOf == [t \in BlockTexts |-> SplitLines(t)]

\* the condition of the structural fallback after the loop
FallbackApplies ==
    LET lines == BlockLinesOf[text_block]
        non_empty_lines == NonEmptyStripped(lines)
        short_line_count ==
            Cardinality({k \in DOMAIN non_empty_lines : Len(non_empty_lines[k]) < 80})
    IN  /\ ~Truthy(option_lines)
        /\ Len(lines) <= MAX_LINES_FOR_HEURISTIC_OPTION_BLOCK
        /\ Len(text_block) < MAX_LENGTH_FOR_HEURISTIC_OPTION_BLOCK
        /\ Len(non_empty_lines) > 0
        /\ 10 * short_line_count >= 6 * Len(non_empty_lines)

\* the variables these actions leave alone
ExtractFrame ==
    UNCHANGED <<messages, i, potential_questions, associated_option_message_ids, local,
                final_collated_questions, processed_stem_ids, transcript_text,
                current_message, message_id_counter, arg_type, web,
                stem_lines, internal_options, current_section,
                target_size, chunks, current_chunk_lines, current_char_count,
                start_index, GEMINI_API_KEY, transcript_chunks, responses, all_collated_questions,
                processed_chunk_count, final_questions>>

\* one iteration of "for line in lines"
ExtractStep ==
    /\ pc = "extract"
    /\ lines_done < Len(BlockLinesOf[text_block])
    /\ LET st == ExtractLine([options |-> option_lines, in_option_section |-> in_option_section],
                             BlockLinesOf[text_block][lines_done + 1])
       IN  /\ option_lines' = st.options
           /\ in_option_section' = st.in_option_section
    /\ lines_done' = lines_done + 1
    /\ UNCHANGED <<pc, text_block>>
    /\ ExtractFrame

\* "options.extend(non_empty_lines)" and the return
ExtractFallback ==
    /\ pc = "extract"
    /\ lines_done = Len(BlockLinesOf[text_block])
    /\ FallbackApplies
    /\ option_lines' = option_lines \o NonEmptyStripped(BlockLinesOf[text_block])
    /\ pc' = "extracted"
    /\ UNCHANGED <<text_block, in_option_section, lines_done>>
    /\ ExtractFrame

\* the return without the fallback
ExtractReturn ==
    /\ pc = "extract"
    /\ lines_done = Len(BlockLinesOf[text_block])
    /\ ~FallbackApplies
    /\ pc' = "extracted"
    /\ UNCHANGED <<text_block, option_lines, in_option_section, lines_done>>
    /\ ExtractFrame

\* a call of extract_options_from_text with one of the text blocks
ExtractInit ==
    /\ text_block \in BlockTexts
    /\ option_lines = <<>> /\ in_option_section = FALSE /\ lines_done = 0
    /\ pc = "extract" /\ i = 1
    /\ messages = <<>> /\ RefineIdle
    /\ transcript_text = <<>> /\ current_message = NoMessage /\ message_id_counter = 0
    /\ arg_type = "str"
    /\ WebIdle
    /\ stem_lines = <<>> /\ internal_options = <<>> /\ current_section = "stem"
    /\ target_size = 0 /\ chunks = <<>> /\ current_chunk_lines = <<>>
    /\ current_char_count = 0 /\ start_index = 0
    /\ GEMINI_API_KEY = FALSE /\ transcript_chunks = <<>> /\ responses = <<>> /\ all_collated_questions = <<>>
    /\ processed_chunk_count = 0 /\ final_questions = <<>>

ExtractNext == ExtractStep \/ ExtractFallback \/ ExtractReturn

SpecExtract == ExtractInit /\ [][ExtractNext]_vars

\* the steps agree with extract_options_from_text as one function
StepsAgreeWithFunction ==
    pc = "extracted" => option_lines = extract_options_from_text(text_block)

\* ---- the rules of extract_options_from_text (C21 to C24) ----

\* the line of the iteration about to run, stripped
BlockLine == Strip(BlockLinesOf[text_block][lines_done + 1])

\* a line the loop examines: neither blank nor a marker alone
ExaminedLine(line) == Truthy(line) /\ ~only_marker_regex(line)

\* one iteration of the loop has run
LineStep == pc = "extract" /\ lines_done' = lines_done + 1

\* C21: once a keyword line has opened the option section, a later examined
\* line without keyword is added as an option, except the first line of more
\* than 100 characters without marker: that line is not added and ends the
\* section.
C21_LongLineEndsSection ==
    [][(/\ LineStep
        /\ in_option_section
        /\ ExaminedLine(BlockLine)
        /\ explicit_option_keywords(BlockLine) = 0)
       => IF Len(BlockLine) > 100 /\ option_marker_regex(BlockLine) = 0
          THEN option_lines' = option_lines /\ ~in_option_section'
          ELSE option_lines' = Append(option_lines, BlockLine) /\ in_option_section']_vars

\* the part of C21 that holds: inside the section every examined line without
\* keyword is added, and the section stays open
SectionTakesEveryLine ==
    [][(/\ LineStep
        /\ in_option_section
        /\ ExaminedLine(BlockLine)
        /\ explicit_option_keywords(BlockLine) = 0)
       => option_lines' = Append(option_lines, BlockLine) /\ in_option_section']_vars

\* a long line without marker is met inside the section
LongLineInSection ==
    /\ pc = "extract"
    /\ lines_done < Len(BlockLinesOf[text_block])
    /\ in_option_section
    /\ Len(BlockLine) > 100

\* C22: a line that is a marker alone is never among the options of
\* extract_options_from_text, whichever rule produced them.
C22_NoMarkerOnlyOption ==
    \A k \in DOMAIN option_lines : ~only_marker_regex(option_lines[k])

\* the part of C22 that holds: the loop (rules 1 to 3) never adds a marker alone
LoopSkipsMarkerOnly ==
    pc = "extract" => \A k \in DOMAIN option_lines : ~only_marker_regex(option_lines[k])

\* the last examined line before the line of the iteration about to run, 0 if none
PreviousExamined ==
    LET S == {k \in 1..lines_done : ExaminedLine(Strip(BlockLinesOf[text_block][k]))}
    IN  IF S = {} THEN 0 ELSE CHOOSE k \in S : \A m \in S : m <= k

\* line k of the block was added to the options by its iteration
AcceptedLine(k) ==
    LET lines == BlockLinesOf[text_block]
        before == ExtractLoop([options |-> <<>>, in_option_section |-> FALSE],
                              SubSeq(lines, 1, k - 1))
    IN  ExtractLine(before, lines[k]).options /= before.options

\* C23: outside a keyword section a line without marker is accepted only if it
\* is shorter than 80 characters and the line before it was accepted as an
\* option.
C23_ContinuationNeedsAcceptedNeighbour ==
    [][(/\ LineStep
        /\ ~in_option_section
        /\ ExaminedLine(BlockLine)
        /\ explicit_option_keywords(BlockLine) = 0
        /\ option_marker_regex(BlockLine) = 0
        /\ option_lines' /= option_lines)
       => /\ Len(BlockLine) < 80
          /\ PreviousExamined > 0
          /\ AcceptedLine(PreviousExamined)]_vars

\* the part of C23 that holds: such a line is accepted only if it is shorter
\* than 80 characters and some option was accepted before it
ContinuationNeedsAnOption ==
    [][(/\ LineStep
        /\ ~in_option_section
        /\ ExaminedLine(BlockLine)
        /\ explicit_option_keywords(BlockLine) = 0
        /\ option_marker_regex(BlockLine) = 0
        /\ option_lines' /= option_lines)
       => /\ Len(BlockLine) < 80
          /\ Truthy(option_lines)]_vars

\* C24: the fallback is applied exactly when the loop produced no option, the
\* block has at most 6 non-empty lines and fewer than 200 characters, and at
\* least 60% of its non-empty lines are shorter than 80 characters; it then
\* makes every non-empty line an option, and otherwise adds nothing.
C24_FallbackExactly ==
    [][(pc = "extract" /\ pc' = "extracted")
       => LET non_empty_lines == NonEmptyStripped(BlockLinesOf[text_block])
              short_line_count ==
                  Cardinality({k \in DOMAIN non_empty_lines :
                                   Len(non_empty_lines[k]) < 80})
          IN  IF /\ option_lines = <<>>
                 /\ Len(non_empty_lines) <= MAX_LINES_FOR_HEURISTIC_OPTION_BLOCK
                 /\ Len(text_block) < MAX_LENGTH_FOR_HEURISTIC_OPTION_BLOCK
                 /\ 10 * short_line_count >= 6 * Len(non_empty_lines)
              THEN option_lines' = non_empty_lines
              ELSE option_lines' = option_lines]_vars

\* the part of C24 that holds: when the loop produced an option the fallback
\* adds nothing, and what the fallback adds is every non-empty line
FallbackOnlyOnEmpty ==
    [][(pc = "extract" /\ pc' = "extracted")
       => IF option_lines /= <<>> THEN option_lines' = option_lines
          ELSE option_lines' \in {<<>>, NonEmptyStripped(BlockLinesOf[text_block])}]_vars

\* ---- pass 1, line by line ----

\* the greatest number of lines of the text of a stem message built from the
\* lines below
MaxScanLines == 3

\* The lines of the stem messages: a stem line of 51 characters, a short stem
\* line, a stem line that starts with a marker, a line with a marker, a short
\* line, a line of 85 characters, a marker alone and a blank line.
ScanLongStem == [k \in 1..51 |-> IF k = 51 THEN "?" ELSE "w"]
ScanShortStem == <<"Q","1","?">>
ScanMarkedStem == <<"Q",")"," ","Z">>
ScanMarked == <<"A","."," ","4">>
ScanShort == <<"y","e","s">>
ScanMarkerOnly == <<"A",".">>
ScanWide == [k \in 1..85 |-> "y"]
ScanBlank == <<>>

ScanLines ==
    {ScanLongStem, ScanShortStem, ScanMarkedStem, ScanMarked, ScanShort, ScanWide,
     ScanMarkerOnly, ScanBlank}

ScanTexts == {Join(ls, <<"\n">>) : ls \in BoundedSeq(ScanLines, MaxScanLines)}

\* lines = original_text.splitlines()
ScanLinesOf == [t \in ScanTexts |-> SplitLines(t)]

\* the variables these actions leave alone
ScanFrame ==
    UNCHANGED <<messages, i, local, final_collated_questions, processed_stem_ids,
                transcript_text, current_message, message_id_counter, arg_type, web,
                text_block, option_lines, in_option_section,
                target_size, chunks, current_chunk_lines, current_char_count,
                start_index, GEMINI_API_KEY, transcript_chunks, responses, all_collated_questions,
                processed_chunk_count, final_questions>>

\* one iteration of "for line in lines" of pass 1
ScanStep ==
    /\ pc = "scan"
    /\ lines_done < Len(ScanLinesOf[messages[i].original_text])
    /\ LET st == StemLine([stem_lines |-> stem_lines,
                           internal_options |-> internal_options,
                           current_section |-> current_section],
                          ScanLinesOf[messages[i].original_text][lines_done + 1])
       IN  /\ stem_lines' = st.stem_lines
           /\ internal_options' = st.internal_options
           /\ current_section' = st.current_section
    /\ lines_done' = lines_done + 1
    /\ UNCHANGED <<pc, potential_questions, associated_option_message_ids>>
    /\ ScanFrame

\* after the loop: the entry of the stem and its internal block
ScanStore ==
    /\ pc = "scan"
    /\ lines_done = Len(ScanLinesOf[messages[i].original_text])
    /\ LET msg == messages[i]
           stem_id == msg.id
           stem_text_only == Strip(Join(stem_lines, <<"\n">>))
           entry == [stem_message |-> msg,
                     stem_text_only |-> IF Truthy(stem_text_only) THEN stem_text_only
                                        ELSE Strip(msg.original_text),
                     options |-> IF Truthy(internal_options)
                                 THEN <<Block(stem_id, internal_options, "internal", NoScore)>>
                                 ELSE <<>>]
       IN  /\ potential_questions' = DictPut(potential_questions, stem_id, entry)
           /\ associated_option_message_ids' =
                  IF Truthy(internal_options)
                  THEN associated_option_message_ids \cup {stem_id}
                  ELSE associated_option_message_ids
    /\ pc' = "scanned"
    /\ UNCHANGED <<stem_lines, internal_options, current_section, lines_done>>
    /\ ScanFrame

\* pass 1 at a message flagged as a stem, its text one of the texts above
ScanInit ==
    /\ \E t \in ScanTexts : messages = Numbered(<<Msg(t, NoTimestamp, TRUE)>>)
    /\ i = 1 /\ pc = "scan"
    /\ stem_lines = <<>> /\ internal_options = <<>> /\ current_section = "stem"
    /\ lines_done = 0
    /\ RefineIdle
    /\ transcript_text = <<>> /\ current_message = NoMessage /\ message_id_counter = 0
    /\ arg_type = "list"
    /\ WebIdle
    /\ text_block = <<>> /\ option_lines = <<>> /\ in_option_section = FALSE
    /\ target_size = 0 /\ chunks = <<>> /\ current_chunk_lines = <<>>
    /\ current_char_count = 0 /\ start_index = 0
    /\ GEMINI_API_KEY = FALSE /\ transcript_chunks = <<>> /\ responses = <<>> /\ all_collated_questions = <<>>
    /\ processed_chunk_count = 0 /\ final_questions = <<>>

ScanNext == ScanStep \/ ScanStore

SpecScan == ScanInit /\ [][ScanNext]_vars

\* the steps agree with the scan as one function
ScanAgreesWithFunction ==
    pc = "scanned" =>
        LET scan == ScanStem(messages[1].original_text)
        IN  /\ potential_questions[1].stem_text_only = scan.stem_text_only
            /\ internal_options = scan.internal_options

\* ---- C25 ----

\* the lines of the message the scan examines, stripped
ScanExamined ==
    LET stripped == [k \in DOMAIN ScanLinesOf[messages[1].original_text] |->
                         Strip(ScanLinesOf[messages[1].original_text][k])]
    IN  SelectSeq(stripped, ExaminedLine)

\* the place of the switch among the examined lines: the first line with a
\* marker, or shorter than 80 characters after a stem line of more than 50;
\* one more than their number if there is none
SwitchAt ==
    LET ex == ScanExamined
        S == {k \in DOMAIN ex :
                  \/ option_marker_regex(ex[k]) > 0
                  \/ k > 1 /\ Len(ex[k]) < 80 /\ Len(ex[k - 1]) > 50}
    IN  IF S = {} THEN Len(ex) + 1 ELSE CHOOSE k \in S : \A m \in S : k <= m

LinesBeforeSwitch == SubSeq(ScanExamined, 1, SwitchAt - 1)
LinesFromSwitch == SubSeq(ScanExamined, SwitchAt, Len(ScanExamined))

\* the internal block of the stem is the lines from the switch on, and there is
\* none if there are no such lines
OneInternalBlock ==
    potential_questions[1].options =
        IF LinesFromSwitch = <<>> THEN <<>>
        ELSE <<Block(1, LinesFromSwitch, "internal", NoScore)>>

NeverBackToStem == [][current_section = "option" => current_section' = "option"]_vars

C25_WitnessNoStemLine ==
    /\ pc = "scanned"
    /\ SwitchAt = 1 /\ Len(ScanExamined) = 2
    /\ potential_questions[1].stem_text_only = messages[1].original_text

\* ---- C26 ----

\* preprocess_transcript takes a step of its loop
LoopStep ==
    /\ pc = "preprocess" /\ Truthy(transcript_text) /\ arg_type = "str"
    /\ i' = i + 1

\* the timestamp texts of the transcripts that no format of formats_to_try parses
UnparsedTimestampTexts ==
    {ts \in DOMAIN ParsedTimestamps : parsed_timestamp(ts) = NoDateTime}

\* C26: a line whose prefix is a timestamp closes the active message, which is
\* appended to the output, and starts a new message with the next id, whether
\* or not a format parses the timestamp; if none does, the new message has no
\* timestamp, and the loop goes on.
C26_TimestampLineStartsMessage ==
    [][LoopStep =>
          LET lines == TranscriptLines
          IN  i <= Len(lines) =>
              LET line == Strip(lines[i])
                  timestamp_str == MatchOf(line).timestamp_str
              IN  Truthy(line) /\ Truthy(timestamp_str) =>
                  /\ messages' = IF current_message /= NoMessage
                                 THEN Append(messages, current_message) ELSE messages
                  /\ current_message' /= NoMessage
                  /\ current_message'.id = message_id_counter + 1
                  /\ message_id_counter' = message_id_counter + 1
                  /\ current_message'.timestamp_str = timestamp_str
                  /\ timestamp_str \in UnparsedTimestampTexts
                         => current_message'.timestamp = NoTimestamp
                  /\ pc' = "preprocess"]_vars

\* a line with a timestamp no format parses has closed an active message and
\* started the next one
C26_Witness ==
    /\ pc = "preprocess"
    /\ Len(messages) >= 1
    /\ current_message /= NoMessage
    /\ Truthy(current_message.timestamp_str)
    /\ current_message.timestamp_str \in UnparsedTimestampTexts
    /\ current_message.timestamp = NoTimestamp
    /\ current_message.id = Len(messages) + 1

\* ---- collate_questions_from_transcript ----

\* the greatest number of chunks of a transcript
MaxChunks == 3

\* What json.loads gives for the text of a response is a record [type, items]:
\* type "invalid" when it raises JSONDecodeError, "object" for a value that is
\* no list, "list" for a list of items. An item is a record [type, stem,
\* stem_text, options_type, options]: type "dict" or "string", stem "present"
\* or "missing" for the key "stem_text", and options_type "missing", "null",
\* "list" or "string" for the key "options".
Item(type, stem, text, options_type, opts) ==
    [type |-> type, stem |-> stem, stem_text |-> text,
     options_type |-> options_type, options |-> opts]

ItemQ1 == Item("dict", "present", <<"Q","1","?">>, "list", << <<"a">>, <<"b">> >>)
ItemQ1Again == Item("dict", "present", <<" ","q","1","?"," ">>, "list", << <<"c">> >>)
ItemQ2 == Item("dict", "present", <<"Q","2","?">>, "missing", <<>>)
ItemQ3 == Item("dict", "present", <<"Q","3","?">>, "null", <<>>)
ItemOptionsString == Item("dict", "present", <<"Q","4","?">>, "string", <<>>)
ItemEmptyStem == Item("dict", "present", <<>>, "list", << <<"a">> >>)
ItemNoStem == Item("dict", "missing", <<>>, "list", << <<"a">> >>)
ItemString == Item("string", "missing", <<>>, "missing", <<>>)

JsonInvalid == [type |-> "invalid", items |-> <<>>]
JsonObject == [type |-> "object", items |-> <<>>]
JsonList(items) == [type |-> "list", items |-> items]

\* A response of the language model is a record [raises, parts, json]: raises
\* when the call or the reading of the response raises, parts for
\* response.parts, json for json.loads(response.text).
RaisedResponse == [raises |-> TRUE, parts |-> FALSE, json |-> JsonInvalid]
BlockedResponse == [raises |-> FALSE, parts |-> FALSE, json |-> JsonInvalid]
TextResponse(json) == [raises |-> FALSE, parts |-> TRUE, json |-> json]

Responses ==
    {RaisedResponse, BlockedResponse, TextResponse(JsonInvalid), TextResponse(JsonObject)}
        \cup {TextResponse(JsonList(items)) :
                  items \in { <<>>,
                              <<ItemQ1>>,
                              <<ItemQ1Again, ItemQ2>>,
                              <<ItemQ2, ItemString, ItemQ3>>,
                              <<ItemOptionsString, ItemEmptyStem, ItemNoStem>>,
                              <<ItemQ1, ItemQ1Again>> }}

\* the chunk of a transcript; the prompt holds it and nothing else depends on it
Chunk == <<"x">>

\* create_transcript_chunks(transcript_text) with the sizes of the module: the
\* transcript stands for a text of any length, and its chunks are at most
\* MaxChunks
ChunkLists == BoundedSeq({Chunk}, MaxChunks)

\* isinstance(item, dict) and "stem_text" in item and item.get("stem_text"),
\* and the options a list once None stands for []
ValidItem(item) ==
    /\ item.type = "dict" /\ item.stem = "present" /\ Truthy(item.stem_text)
    /\ item.options_type \in {"missing", "null", "list"}

\* valid_chunk_questions of chunk n
valid_chunk_questions(items, n) ==
    LET valid == SelectSeq(items, ValidItem)
    IN  [k \in DOMAIN valid |->
            [stem_text |-> valid[k].stem_text,
             options |-> IF valid[k].options_type = "list" THEN valid[k].options ELSE <<>>,
             source_chunk |-> n]]

\* ChunkResult that forgets the questions collected so far when the call raises
ChunkResultForgetting(st, resp, n) ==
    IF resp.raises THEN [st EXCEPT !.all_collated_questions = <<>>]
    ELSE IF ~resp.parts THEN st
    ELSE IF resp.json.type = "invalid" THEN st
    ELSE IF resp.json.type /= "list" THEN st
    ELSE [all_collated_questions |->
              st.all_collated_questions \o valid_chunk_questions(resp.json.items, n),
          processed_chunk_count |-> st.processed_chunk_count + 1]

\* the body of the loop for chunk n on st = [all_collated_questions,
\* processed_chunk_count], the response being resp
ChunkResult(st, resp, n) ==
    IF resp.raises THEN st
    ELSE IF ~resp.parts THEN st
    ELSE IF resp.json.type = "invalid" THEN st
    ELSE IF resp.json.type /= "list" THEN st
    ELSE [all_collated_questions |->
              st.all_collated_questions \o valid_chunk_questions(resp.json.items, n),
          processed_chunk_count |-> st.processed_chunk_count + 1]

\* q['stem_text'].lower().strip()
norm_stem(q) == Strip(Lower(q.stem_text))

\* the loop that combines: the first question of every normalised stem
RECURSIVE Combine(_, _)
Combine(qs, seen_stems) ==
    IF qs = <<>> THEN <<>>
    ELSE IF norm_stem(Head(qs)) \notin seen_stems
    THEN <<[stem_text |-> Head(qs).stem_text, options |-> Head(qs).options]>>
             \o Combine(Tail(qs), seen_stems \cup {norm_stem(Head(qs))})
    ELSE Combine(Tail(qs), seen_stems)

\* the variables these actions leave alone
CollateFrame ==
    UNCHANGED <<messages, potential_questions, associated_option_message_ids, local,
                final_collated_questions, processed_stem_ids,
                current_message, message_id_counter, arg_type, web,
                text_block, option_lines, in_option_section,
                stem_lines, internal_options, current_section, lines_done,
                target_size, chunks, current_chunk_lines, current_char_count,
                start_index>>

\* if not GEMINI_API_KEY: return []
CollateNoKey ==
    /\ pc = "collate" /\ ~GEMINI_API_KEY
    /\ final_questions' = <<>> /\ pc' = "collated"
    /\ UNCHANGED <<i, transcript_text, GEMINI_API_KEY, transcript_chunks, responses,
                   all_collated_questions, processed_chunk_count>>
    /\ CollateFrame

\* if not transcript_text: return []
CollateEmptyText ==
    /\ pc = "collate" /\ GEMINI_API_KEY /\ ~Truthy(transcript_text)
    /\ final_questions' = <<>> /\ pc' = "collated"
    /\ UNCHANGED <<i, transcript_text, GEMINI_API_KEY, transcript_chunks, responses,
                   all_collated_questions, processed_chunk_count>>
    /\ CollateFrame

\* transcript_chunks = create_transcript_chunks(transcript_text), no chunk:
\* return []
CollateNoChunks ==
    /\ pc = "collate" /\ GEMINI_API_KEY /\ Truthy(transcript_text)
    /\ transcript_chunks' = <<>>
    /\ final_questions' = <<>> /\ pc' = "collated"
    /\ UNCHANGED <<i, transcript_text, GEMINI_API_KEY, responses,
                   all_collated_questions, processed_chunk_count>>
    /\ CollateFrame

\* transcript_chunks = create_transcript_chunks(transcript_text), some chunks
CollateSplit ==
    /\ pc = "collate" /\ GEMINI_API_KEY /\ Truthy(transcript_text)
    /\ \E cs \in ChunkLists \ {<<>>} : transcript_chunks' = cs
    /\ all_collated_questions' = <<>> /\ processed_chunk_count' = 0
    /\ i' = 1 /\ pc' = "chunks"
    /\ UNCHANGED <<transcript_text, GEMINI_API_KEY, responses, final_questions>>
    /\ CollateFrame

\* one chunk of "for i, chunk in enumerate(transcript_chunks)", with the
\* response the language model gives for it
CollateChunk ==
    /\ pc = "chunks" /\ i <= Len(transcript_chunks)
    /\ \E resp \in Responses :
           /\ responses' = Append(responses, resp)
           /\ LET st == ChunkResult([all_collated_questions |-> all_collated_questions,
                                     processed_chunk_count |-> processed_chunk_count],
                                    resp, i)
              IN  /\ all_collated_questions' = st.all_collated_questions
                  /\ processed_chunk_count' = st.processed_chunk_count
    /\ i' = i + 1
    /\ UNCHANGED <<pc, transcript_text, GEMINI_API_KEY, transcript_chunks, final_questions>>
    /\ CollateFrame

\* after the loop: the questions are combined and returned
CollateCombine ==
    /\ pc = "chunks" /\ i > Len(transcript_chunks)
    /\ final_questions' = Combine(all_collated_questions, {})
    /\ pc' = "collated"
    /\ UNCHANGED <<i, transcript_text, GEMINI_API_KEY, transcript_chunks, responses,
                   all_collated_questions, processed_chunk_count>>
    /\ CollateFrame

\* a call of collate_questions_from_transcript, the key configured or not, the
\* transcript empty or not
CollateInit ==
    /\ GEMINI_API_KEY \in BOOLEAN
    /\ transcript_text \in {<<>>, Chunk}
    /\ pc = "collate" /\ i = 1
    /\ transcript_chunks = <<>> /\ responses = <<>> /\ all_collated_questions = <<>>
    /\ processed_chunk_count = 0 /\ final_questions = <<>>
    /\ messages = <<>> /\ RefineIdle
    /\ current_message = NoMessage /\ message_id_counter = 0 /\ arg_type = "str"
    /\ WebIdle
    /\ text_block = <<>> /\ option_lines = <<>> /\ in_option_section = FALSE
    /\ stem_lines = <<>> /\ internal_options = <<>> /\ current_section = "stem"
    /\ lines_done = 0
    /\ target_size = 0 /\ chunks = <<>> /\ current_chunk_lines = <<>>
    /\ current_char_count = 0 /\ start_index = 0

CollateNext ==
    \/ CollateNoKey
    \/ CollateEmptyText
    \/ CollateNoChunks
    \/ CollateSplit
    \/ CollateChunk
    \/ CollateCombine

SpecCollate == CollateInit /\ [][CollateNext]_vars

\* ---- C27 ----

\* the chunk with this response succeeded: the call returned, the response has
\* parts, and its text is a JSON list
Succeeded(resp) == ~resp.raises /\ resp.parts /\ resp.json.type = "list"

\* the response failed in one of the four ways
Failed(resp) ==
    \/ resp.raises
    \/ ~resp.raises /\ ~resp.parts
    \/ ~resp.raises /\ resp.parts /\ resp.json.type \in {"invalid", "object"}

\* the questions of the chunks 1..n that succeeded, in the order of the chunks
RECURSIVE QuestionsOfSucceeded(_)
QuestionsOfSucceeded(n) ==
    IF n = 0 THEN <<>>
    ELSE QuestionsOfSucceeded(n - 1)
             \o (IF Succeeded(responses[n])
                 THEN LET items == responses[n].json.items
                          good == SelectSeq(items, ValidItem)
                      IN  [k \in DOMAIN good |->
                              [stem_text |-> good[k].stem_text,
                               options |-> IF good[k].options_type = "list"
                                           THEN good[k].options ELSE <<>>]]
                 ELSE <<>>)

\* qs without the questions whose stem, in lower case and stripped, is the stem
\* of an earlier question of qs
FirstOfEachStem(qs) ==
    LET keep == {k \in DOMAIN qs :
                     \A m \in 1..(k - 1) :
                         Strip(Lower(qs[m].stem_text)) /= Strip(Lower(qs[k].stem_text))}
        nth(j) == CHOOSE k \in keep : Cardinality({m \in keep : m <= k}) = j
    IN  [j \in 1..Cardinality(keep) |-> qs[nth(j)]]

WithoutChunk(qs) ==
    [k \in DOMAIN qs |-> [stem_text |-> qs[k].stem_text, options |-> qs[k].options]]

\* C27: a chunk that fails (the call raises, the response is empty or blocked,
\* its text is no JSON or no list) does not end the run: the questions
\* collected so far stay, the next chunk is taken, and what is returned is the
\* de-duplicated union of the questions of the chunks that succeeded.
C27_FailedChunkDoesNotAbort ==
    /\ [][(pc = "chunks" /\ i' = i + 1 /\ Failed(responses'[i]))
          => /\ all_collated_questions' = all_collated_questions
             /\ pc' = "chunks"]_vars
    /\ []((pc \in {"chunks", "collated"} /\ Truthy(transcript_chunks)) =>
            /\ Len(responses) = i - 1
            /\ WithoutChunk(all_collated_questions) = QuestionsOfSucceeded(i - 1))
    /\ []((pc = "collated" /\ Truthy(transcript_chunks)) =>
            /\ Len(responses) = Len(transcript_chunks)
            /\ final_questions = FirstOfEachStem(QuestionsOfSucceeded(Len(responses))))

\* a run of three chunks returned: the first gave questions, the second failed,
\* the third gave a question again and a new one, and the result holds the
\* questions of both
C27_Witness ==
    /\ pc = "collated"
    /\ Len(responses) = 3
    /\ Succeeded(responses[1]) /\ responses[1].json.items = <<ItemQ1>>
    /\ responses[2] = RaisedResponse
    /\ responses[3] = TextResponse(JsonList(<<ItemQ1Again, ItemQ2>>))
    /\ Len(final_questions) = 2
    /\ processed_chunk_count = 2

\* ---- create_transcript_chunks ----

CHUNK_OVERLAP_LINES == 10

\* the greatest number of lines of a transcript to split
MaxTranscriptLines == 12

\* Line k of a transcript is the k-th letter; one line may be of four
\* characters instead, and the first, the second or the last may be blank.
TranscriptLine(k, long, blank) ==
    IF k = blank THEN <<>>
    ELSE IF k = long THEN <<LowerChars[k], LowerChars[k], LowerChars[k], LowerChars[k]>>
    ELSE <<LowerChars[k]>>

ChunkTexts ==
    {<<>>, <<" ", "\n", " ">>}
        \cup {Join([k \in 1..n |-> TranscriptLine(k, long, blank)], <<"\n">>) :
                  n \in 1..MaxTranscriptLines, long \in 0..MaxTranscriptLines,
                  blank \in {0, 1, 2, MaxTranscriptLines}}

\* the target sizes, in place of the 25000 characters of the module: every line
\* closes a chunk, a chunk holds two short lines,
\* a chunk holds ten short lines
TargetSizes == {1, 5, 21}

\* lines = transcript_text.splitlines()
ChunkLinesOf == [t \in ChunkTexts |-> SplitLines(t)]

\* sum(len(l) + 1 for l in ls)
RECURSIVE CharCount(_)
CharCount(ls) == IF ls = <<>> THEN 0 ELSE Len(Head(ls)) + 1 + CharCount(Tail(ls))

Max(a, b) == IF a >= b THEN a ELSE b

\* ChunkStep that starts the next chunk after the line that closed the last
ChunkStepWithoutOverlap(st, lines, n, target, overlap_lines) ==
    LET line == lines[n]
        line_len == Len(line) + 1
    IN  IF \/ st.current_char_count + line_len > target /\ Truthy(st.current_chunk_lines)
           \/ n = Len(lines)
        THEN LET closed == IF n = Len(lines) THEN Append(st.current_chunk_lines, line)
                           ELSE st.current_chunk_lines
             IN  IF n < Len(lines)
                 THEN [chunks |-> Append(st.chunks, Join(closed, <<"\n">>)),
                       start_index |-> n + 1,
                       current_chunk_lines |-> <<>>,
                       current_char_count |-> 0]
                 ELSE [st EXCEPT !.chunks = Append(@, Join(closed, <<"\n">>)),
                                 !.current_chunk_lines = <<>>]
        ELSE [st EXCEPT !.current_chunk_lines = Append(@, line),
                        !.current_char_count = @ + line_len,
                        !.start_index = IF Len(st.current_chunk_lines) = 0 THEN n ELSE @]

\* One iteration of "for i, line in enumerate(lines)" on st = [chunks,
\* current_chunk_lines, current_char_count, start_index]. The lines are counted
\* from 1 here, n is i + 1 and start_index is one more than in the code.
ChunkStep(st, lines, n, target, overlap_lines) ==
    LET line == lines[n]
        line_len == Len(line) + 1
    IN  IF \/ st.current_char_count + line_len > target /\ Truthy(st.current_chunk_lines)
           \/ n = Len(lines)
        THEN LET closed == IF n = Len(lines) THEN Append(st.current_chunk_lines, line)
                           ELSE st.current_chunk_lines
                 overlap_start_index == Max(st.start_index, n - overlap_lines + 1)
             IN  IF n < Len(lines)
                 THEN [chunks |-> Append(st.chunks, Join(closed, <<"\n">>)),
                       start_index |-> overlap_start_index,
                       current_chunk_lines |-> SubSeq(lines, overlap_start_index, n),
                       current_char_count |->
                           CharCount(SubSeq(lines, overlap_start_index, n))]
                 ELSE [st EXCEPT !.chunks = Append(@, Join(closed, <<"\n">>)),
                                 !.current_chunk_lines = <<>>]
        ELSE [st EXCEPT !.current_chunk_lines = Append(@, line),
                        !.current_char_count = @ + line_len,
                        !.start_index = IF Len(st.current_chunk_lines) = 0 THEN n ELSE @]

\* chunk.strip()
NonBlankChunk(chunk) == Truthy(Strip(chunk))

\* the variables these actions leave alone
ChunkFrame ==
    UNCHANGED <<messages, potential_questions, associated_option_message_ids, local,
                final_collated_questions, processed_stem_ids,
                transcript_text, current_message, message_id_counter, arg_type, web,
                text_block, option_lines, in_option_section,
                stem_lines, internal_options, current_section, lines_done,
                target_size, GEMINI_API_KEY, responses, all_collated_questions,
                processed_chunk_count, final_questions>>

\* if not lines: return []
ChunkNoLines ==
    /\ pc = "chunk" /\ ChunkLinesOf[transcript_text] = <<>>
    /\ transcript_chunks' = <<>>
    /\ pc' = "chunked"
    /\ UNCHANGED <<i, chunks, current_chunk_lines, current_char_count, start_index>>
    /\ ChunkFrame

\* one line of the loop
ChunkLine ==
    /\ pc = "chunk" /\ i <= Len(ChunkLinesOf[transcript_text])
    /\ LET st == ChunkStep([chunks |-> chunks,
                            current_chunk_lines |-> current_chunk_lines,
                            current_char_count |-> current_char_count,
                            start_index |-> start_index],
                           ChunkLinesOf[transcript_text], i, target_size,
                           CHUNK_OVERLAP_LINES)
       IN  /\ chunks' = st.chunks
           /\ current_chunk_lines' = st.current_chunk_lines
           /\ current_char_count' = st.current_char_count
           /\ start_index' = st.start_index
    /\ i' = i + 1
    /\ UNCHANGED <<pc, transcript_chunks>>
    /\ ChunkFrame

\* after the loop: what is left is a chunk, and the chunks that are not blank
\* are returned
ChunkReturn ==
    /\ pc = "chunk" /\ ChunkLinesOf[transcript_text] /= <<>>
    /\ i > Len(ChunkLinesOf[transcript_text])
    /\ chunks' = IF Truthy(current_chunk_lines)
                 THEN Append(chunks, Join(current_chunk_lines, <<"\n">>)) ELSE chunks
    /\ transcript_chunks' = SelectSeq(chunks', NonBlankChunk)
    /\ pc' = "chunked"
    /\ UNCHANGED <<i, current_chunk_lines, current_char_count, start_index>>
    /\ ChunkFrame

\* a call of create_transcript_chunks with one of the texts, one of the target
\* sizes and the overlap of the module
ChunkInit ==
    /\ transcript_text \in ChunkTexts
    /\ target_size \in TargetSizes
    /\ chunks = <<>> /\ current_chunk_lines = <<>> /\ current_char_count = 0
    /\ start_index = 1
    /\ i = 1 /\ pc = "chunk"
    /\ transcript_chunks = <<>>
    /\ messages = <<>> /\ RefineIdle
    /\ current_message = NoMessage /\ message_id_counter = 0 /\ arg_type = "str"
    /\ WebIdle
    /\ text_block = <<>> /\ option_lines = <<>> /\ in_option_section = FALSE
    /\ stem_lines = <<>> /\ internal_options = <<>> /\ current_section = "stem"
    /\ lines_done = 0
    /\ GEMINI_API_KEY = FALSE /\ responses = <<>> /\ all_collated_questions = <<>>
    /\ processed_chunk_count = 0 /\ final_questions = <<>>

ChunkNext == ChunkNoLines \/ ChunkLine \/ ChunkReturn

SpecChunks == ChunkInit /\ [][ChunkNext]_vars

\* the loop is a for loop over a list: every iteration is taken in turn
SpecChunksFair == SpecChunks /\ WF_vars(ChunkNext)

\* ---- C28 ----

\* the last n elements of s
LastOf(s, n) == SubSeq(s, Len(s) - n + 1, Len(s))

\* the iteration about to run closes the chunk because the line does not fit
ClosesBySize ==
    /\ pc = "chunk" /\ i < Len(ChunkLinesOf[transcript_text]) /\ i' = i + 1
    /\ Truthy(current_chunk_lines)
    /\ current_char_count + Len(ChunkLinesOf[transcript_text][i]) + 1 > target_size

\* C28: when a chunk of at least 10 lines is closed because the next line does
\* not fit, the following chunk begins with the last 10 lines of the closed
\* chunk.
C28_TenLineOverlap ==
    [][(ClosesBySize /\ Len(current_chunk_lines) >= 10)
       => /\ Len(current_chunk_lines') >= 10
          /\ SubSeq(current_chunk_lines', 1, 10) = LastOf(current_chunk_lines, 10)]_vars

\* what holds instead: the following chunk begins with the last 9 lines of the
\* closed chunk, and the line that did not fit comes next
NineLineOverlap ==
    [][(ClosesBySize /\ Len(current_chunk_lines) >= 10)
       => current_chunk_lines' =
              Append(LastOf(current_chunk_lines, 9), ChunkLinesOf[transcript_text][i])]_vars

\* a chunk of 10 lines is about to be closed by size
TenLineChunkCloses ==
    /\ pc = "chunk" /\ i < Len(ChunkLinesOf[transcript_text])
    /\ Len(current_chunk_lines) = 10
    /\ current_char_count + Len(ChunkLinesOf[transcript_text][i]) + 1 > target_size

\* ---- C30 ----

\* the number of lines of a chunk
LinesIn(chunk) == 1 + Cardinality({k \in DOMAIN chunk : chunk[k] = "\n"})

\* chunk is the run of the lines a, a + 1, ... of the input
RunFrom(chunk, a) ==
    LET lines == ChunkLinesOf[transcript_text]
    IN  /\ a + LinesIn(chunk) - 1 <= Len(lines)
        /\ chunk = Join(SubSeq(lines, a, a + LinesIn(chunk) - 1), <<"\n">>)

\* line k of the input is in the chunk, which is a run of the input
HoldsLine(chunk, k) ==
    \E a \in 1..k : k <= a + LinesIn(chunk) - 1 /\ RunFrom(chunk, a)

EveryLineInAChunk ==
    pc = "chunked" =>
        LET lines == ChunkLinesOf[transcript_text]
        IN  /\ \A c \in DOMAIN transcript_chunks :
                   \E a \in DOMAIN lines : RunFrom(transcript_chunks[c], a)
            /\ \A k \in DOMAIN lines :
                   Truthy(Strip(lines[k])) =>
                       \E c \in DOMAIN transcript_chunks :
                           HoldsLine(transcript_chunks[c], k)

\* C30: the function returns, every returned chunk is a run of consecutive
\* lines of the input in their order, and every line of the input that is not
\* blank is in a returned chunk.
C30_ChunksCoverEveryLine ==
    /\ []EveryLineInAChunk
    /\ <>(pc = "chunked")

\* a transcript split by size more than once, the last chunk closed by the last
\* line
C30_Witness ==
    /\ pc = "chunked"
    /\ Len(ChunkLinesOf[transcript_text]) = MaxTranscriptLines
    /\ Len(transcript_chunks) >= 3
    /\ target_size = 21

\* ---- C29 ----

\* the blocks of stem s that come from message m
BlocksFrom(s, m) ==
    {j \in DOMAIN potential_questions[s].options :
         potential_questions[s].options[j].source_message_id = m}

\* C29: the options of a message that is no stem are attached to at most one
\* stem, in one block, and that stem has a smaller id than the message; the
\* options of a message flagged as a stem are in no block but the internal
\* block of that stem itself.
C29_OneEarlierStem ==
    \A k \in DOMAIN messages :
        LET m == messages[k].id
        IN  IF IsStemMessage(messages[k])
            THEN \A s \in DOMAIN potential_questions :
                     \A b \in BlocksOf(s) :
                         b.source_message_id = m => (s = m /\ b.method = "internal")
            ELSE /\ Cardinality(HoldersOf(m)) <= 1
                 /\ \A s \in HoldersOf(m) :
                        /\ s < m
                        /\ Cardinality(BlocksFrom(s, m)) = 1
                        /\ \A b \in BlocksOf(s) :
                               b.source_message_id = m
                                   => b.method \in {"adjacent", "similarity"}

\* two stems one after the other, the second with options of its own, and a
\* message with options after them: the options of the second stem are its
\* internal block only, and the message is attached to the second stem alone
C29_Witness ==
    /\ pc = "done"
    /\ Len(messages) = 3
    /\ IsStemMessage(messages[1]) /\ IsStemMessage(messages[2])
    /\ HasBlock(2, 2, "internal")
    /\ HoldersOf(2) = {2}
    /\ OptionMessage(3)
    /\ HoldersOf(3) = {2}

====
